---------------------------- MODULE Spec2Model ----------------------------
(***************************************************************************)
(* A model of the stackdriver_exporter collection engine.                  *)
(*                                                                         *)
(* Three parts, each with its own specification:                           *)
(*   SpecDelta  - the delta stores (delta/counter.go) and the per-scrape   *)
(*                translator that feeds and lists them;                    *)
(*   SpecScrape - the goroutine fan-out of one scrape                      *)
(*                (collectors/monitoring_collector.go);                    *)
(*   SpecCache  - the collector cache and the handler that uses it.        *)
(* Time is counted in ticks; a minute is TicksPerMinute ticks.             *)
(***************************************************************************)
EXTENDS Integers, Sequences, FiniteSets, TLC

VARIABLES
    \* ---- delta stores and translator
    now,               \* the wall clock, in ticks
    served,            \* the descriptors the source lists for the engine's prefixes
    scrapeActive,      \* a Collect call is in progress
    begun,             \* Collect's begun (scrape start time)
    running,           \* descriptors whose task has not called Complete yet
    counterStore,      \* InMemoryCounterStore.store: name -> key -> ConstMetric
    histogramStore,    \* InMemoryHistogramStore.store: name -> key -> HistogramMetric
    emitted,           \* what the step just taken sent to the sink
    listed,            \* what ListMetrics returned in the step just taken
    lastOp,            \* history: the last store operation and its outcome
    track,             \* history: per key, the increments since the key was absent
    continued,         \* history: keys emitted by stale continuation since their last sample
    samples,           \* history: number of samples delivered so far
    lastEmitted,       \* history: per descriptor and key still stored, the report time and value Complete last sent
    \* ---- the fan-out of one scrape
    metricsTypePrefixes, \* MonitoringCollector.metricsTypePrefixes
    collectPc,         \* where Collect is: "idle" or "waiting" (at wg.Wait)
    prefixPc,          \* per prefix task: where the goroutine is
    got,               \* per prefix task: descriptors the listing has returned
    errChannel,        \* reportMonitoringMetrics' errChannel: errors queued
    innerErrChannel,   \* per prefix: collectMetricsForDescriptors' errChannel
    descPc,            \* per descriptor task: where the goroutine is
    seriesGot,         \* per descriptor task: time series the listing has returned
    sinkDescs,         \* descriptors whose series were sent to the sink this scrape
    failedDescs,       \* history: descriptors whose time-series listing failed
    errorsReported,    \* history: errors reported by tasks in this scrape
    selfMetrics,       \* scrapes_total, scrape_errors_total, last_scrape_error
    atStart,           \* history: the counters when the scrape started
    selfEmitted,       \* the self-metrics of this scrape were sent to the sink
    \* ---- the collector cache and the handler
    clock,             \* the wall clock of the handler, in ticks
    cache,             \* CollectorCache.cache: key -> [collector, expiry]
    handlerCollector,  \* the collector registered in h.handler at startup
    nextCollector,     \* identity of the next MonitoringCollector constructed
    reqPc,             \* per request: where getCollector is
    reqKey,            \* per request: its collectorKey
    reqSeen,           \* per request: what it saw when it arrived
    lastAccess,        \* history: per key, when an entry was last stored or returned
    lastEngine,        \* history: per key, the collector of the last scrape served
    lastGet,           \* history: the Get that returned in the step just taken
    lastServe,         \* history: the scrape that got its collector in the step just taken
    \* ---- prefix and project selection
    flagPrefixes,     \* the metric type prefixes given on the command line
    configuredPrefixes,\* handler.metricsPrefixes
    collectFilters,    \* the collect values of the last request, in iteration order
    projectFilters,    \* the project_ids values of the last request
    scrapedPrefixes,   \* the prefixes the last request's collectors were built with
    scrapedProjects,   \* the projects the last request built collectors for
    selectPc,          \* "start", "ready" (handler built) or "served"
    \* ---- deduplicator
    dedup,             \* the MetricDeduplicator of the scrape under way
    mu,                \* who holds d.mu: "free" or a task
    taskPc,            \* per task: "idle", "waiting" (blocked in Lock) or "locked"
    taskArgs,          \* per task: the arguments of its CheckAndMark call
    dedupCalls,        \* history: the calls this deduplicator has answered, in order
    prevMarked,        \* history: the tuples the previous scrape's deduplicator marked
    dedupScrape,       \* the number of the scrape under way
    issued,            \* the number of CheckAndMark calls made so far
    \* ---- descriptor cache
    descNow,           \* time.Now() as the descriptor cache sees it, in ticks
    descCache,         \* descriptorCache.cache: prefix -> [data, expiry]
    descPending,       \* per storer: the entry it has built and not yet written
    descWritten,       \* history: per prefix, the list last written and when its Store began
    descLookup,        \* history: the Lookup that returned in the step just taken
    descStores,        \* the number of Store calls made so far
    \* ---- name normalization
    metricName,        \* the name handed to NormalizeMetricName, as a sequence of characters
    normalized,        \* history: the results of normalizing it once and then again
    \* ---- reportTimeSeriesMetrics
    trDescriptor,      \* the metric descriptor whose time series are reported: kind, value type, distributions
    trFlags,           \* the collector's fillMissingLabels, aggregateDeltas and dropDelegatedProjects
    results,           \* the time series of the result list that the loop has gone through
    newestTSPoint,     \* reportTimeSeriesMetrics' variable of that name, declared outside the loop
    constMetrics,      \* timeSeriesMetrics.constMetrics, the records held back for label filling
    histogramMetrics,  \* timeSeriesMetrics.histogramMetrics
    trSink,            \* the metrics sent to the channel, each with the series it came from
    trPc,              \* where reportTimeSeriesMetrics is: idle, loop or done
    \* ---- concurrent calls on the counter store
    entryMutex,        \* MetricEntry.mutex of the descriptor's entry: the task holding it, or free
    storeTask,         \* per task: where it is inside Increment or ListMetrics, and its locals
    linearStore,       \* history: the store after the calls so far, taken one at a time in the order they took the mutex
    lastStored,        \* history: per key, the latest report time a successful Increment has stored
    storeCalls,        \* the number of calls made so far
    \* ---- the queried window (collectMetricsForDescriptors)
    winNow,            \* time.Now() of collectMetricsForDescriptors, in ticks of a fraction of a second
    winOptions,        \* metricsInterval, metricsOffset (ticks) and metricsIngestDelay of the collector
    winDescriptors,    \* descriptor type -> the ingest delay its metadata advertises (ticks), or NoDelay
    winBase,           \* startTime and endTime of collectMetricsForDescriptors, once computed
    winTask,           \* descriptor type -> the goroutine's position and its own startTime, endTime
    winRequest,        \* descriptor type -> the Interval of the ListTimeSeriesRequest sent (seconds)
    \* ---- the collector cache ttl (newHandler)
    handlerFlags,      \* the flags newHandler reads: aggregate-deltas, aggregate-deltas-ttl, descriptor-cache-ttl (half hours)
    collectorsTtl      \* the ttl newHandler gave NewCollectorCache, or NoTtl before the call

deltaVars == <<now, served, scrapeActive, begun, running, counterStore, histogramStore,
               emitted, listed, lastOp, track, continued, samples,
               lastEmitted>>

scrapeVars == <<metricsTypePrefixes, collectPc, prefixPc, got, errChannel,
                innerErrChannel, descPc, seriesGot, sinkDescs, failedDescs,
                errorsReported, selfMetrics, atStart, selfEmitted>>

cacheVars == <<clock, cache, handlerCollector, nextCollector, reqPc, reqKey, reqSeen,
               lastAccess, lastEngine, lastGet, lastServe>>

prefixVars == <<flagPrefixes, configuredPrefixes, collectFilters, projectFilters,
                scrapedPrefixes, scrapedProjects, selectPc>>

dedupVars == <<dedup, mu, taskPc, taskArgs, dedupCalls, prevMarked, dedupScrape, issued>>

descVars == <<descNow, descCache, descPending, descWritten, descLookup, descStores>>

normVars == <<metricName, normalized>>

transVars == <<trDescriptor, trFlags, results, newestTSPoint, constMetrics,
               histogramMetrics, trSink, trPc>>

storeVars == <<entryMutex, storeTask, linearStore, lastStored, storeCalls>>

winVars == <<winNow, winOptions, winDescriptors, winBase, winTask, winRequest>>

handlerVars == <<handlerFlags, collectorsTtl>>

otherThanDelta == <<scrapeVars, cacheVars, prefixVars, dedupVars, descVars, normVars, transVars, storeVars, winVars, handlerVars>>

otherThanScrape == <<deltaVars, cacheVars, prefixVars, dedupVars, descVars, normVars, transVars, storeVars, winVars, handlerVars>>

otherThanCache == <<deltaVars, scrapeVars, prefixVars, dedupVars, descVars, normVars, transVars, storeVars, winVars, handlerVars>>

otherThanPrefix == <<deltaVars, scrapeVars, cacheVars, dedupVars, descVars, normVars, transVars, storeVars, winVars, handlerVars>>

otherThanDedup == <<deltaVars, scrapeVars, cacheVars, prefixVars, descVars, normVars, transVars, storeVars, winVars, handlerVars>>

otherThanDesc == <<deltaVars, scrapeVars, cacheVars, prefixVars, dedupVars, normVars, transVars, storeVars, winVars, handlerVars>>

otherThanNorm == <<deltaVars, scrapeVars, cacheVars, prefixVars, dedupVars, descVars, transVars, storeVars, winVars, handlerVars>>

otherThanTrans == <<deltaVars, scrapeVars, cacheVars, prefixVars, dedupVars, descVars, normVars, storeVars, winVars, handlerVars>>

otherThanStore == <<deltaVars, scrapeVars, cacheVars, prefixVars, dedupVars, descVars, normVars, transVars, winVars, handlerVars>>

otherThanWin == <<deltaVars, scrapeVars, cacheVars, prefixVars, dedupVars, descVars, normVars, transVars, storeVars, handlerVars>>

otherThanHandler == <<deltaVars, scrapeVars, cacheVars, prefixVars, dedupVars, descVars, normVars, transVars, storeVars, winVars>>

vars == <<deltaVars, scrapeVars, cacheVars, prefixVars, dedupVars, descVars, normVars, transVars, storeVars, winVars, handlerVars>>

-----------------------------------------------------------------------------
(* Bounds and scale of the model *)

MaxTime == 3

MaxSamples == 2

TicksPerMinute == 2

DeltaTtl == 1

-----------------------------------------------------------------------------
(* Small helpers *)

\* time.Time.Truncate(time.Minute) for a non-negative instant
TruncateTime(t) == t - (t % TicksPerMinute)

\* time.Duration.Truncate(time.Minute): rounds toward zero
TruncateDuration(d) ==
    IF d >= 0 THEN d - (d % TicksPerMinute)
    ELSE -((-d) - ((-d) % TicksPerMinute))

\* a Go map seen as a function: lookup with a default, and update
MapGet(m, k, default) == IF k \in DOMAIN m THEN m[k] ELSE default

MapPut(m, k, v) == [x \in (DOMAIN m) \cup {k} |-> IF x = k THEN v ELSE m[x]]

EmptyMap == [x \in {} |-> 0]

-----------------------------------------------------------------------------
(* The metric descriptors and time series the source serves *)

DescNames == {"d1", "d2"}

\* what the source can hold under the prefix of one engine: an INT64
\* descriptor or a DISTRIBUTION descriptor
ServedChoices == {{"d1"}, {"d2"}}

\* MetricDescriptor.ValueType of each descriptor
ValueTypeOf(d) == IF d = "d2" THEN "DISTRIBUTION" ELSE "INT64"

\* buildFQName: one fully qualified name per descriptor
buildFQName(d) == "stackdriver_res_" \o d

Series == {"s1", "s2"}

SeriesOf(d) == Series

\* the label keys and values reportTimeSeriesMetrics builds for a series
LabelKeysOf(s) == IF s = "s1" THEN <<"unit", "zone">> ELSE <<"unit", "disk">>

LabelValuesOf(s) == IF s = "s1" THEN <<"1", "a">> ELSE <<"1", "b">>

\* the order sort.Strings puts the label keys in
KeyRank(k) ==
    CASE k = "disk" -> 1 [] k = "project_id" -> 2 [] k = "unit" -> 3 [] k = "zone" -> 4
      [] OTHER -> 5

\* the values a DELTA INT64 point can carry
SampleValues == {1, 2}

InfBound == 99

\* the distributions a DELTA DISTRIBUTION point can carry, already bucketized
SampleHistograms ==
    { [Sum |-> 1, Count |-> 1, Buckets |-> (1 :> 1 @@ InfBound :> 1)],
      [Sum |-> 6, Count |-> 2, Buckets |-> (1 :> 0 @@ 5 :> 1 @@ InfBound :> 2)] }

-----------------------------------------------------------------------------
(* delta/counter.go: the counter and histogram stores *)

RECURSIVE SortedInsert(_, _)
SortedInsert(sorted, k) ==
    IF sorted = <<>> THEN <<k>>
    ELSE IF KeyRank(k) < KeyRank(Head(sorted)) THEN <<k>> \o sorted
    ELSE <<Head(sorted)>> \o SortedInsert(Tail(sorted), k)

\* sort.Strings on a slice of label keys
RECURSIVE SortStrings(_)
SortStrings(keys) ==
    IF keys = <<>> THEN <<>> ELSE SortedInsert(SortStrings(Tail(keys)), Head(keys))

\* labels[c.LabelKeys[i]] = c.LabelValues[i]: the last index of a key wins
LabelMap(keys, values) ==
    [k \in {keys[i] : i \in DOMAIN keys} |->
        values[CHOOSE i \in DOMAIN keys :
                  keys[i] = k /\ \A j \in DOMAIN keys : keys[j] = k => j <= i]]

\* toCounterKey / toHistogramKey: the text that is hashed, fqName and the
\* "key:value" parts in sorted key order (the 64-bit FNV hash of the text is
\* taken to be collision-free on the few texts of the model)
toCounterKey(c) ==
    LET labels == LabelMap(c.LabelKeys, c.LabelValues)
        keysCopy == SortStrings(c.LabelKeys)
    IN  <<c.FqName, [i \in DOMAIN keysCopy |-> <<keysCopy[i], labels[keysCopy[i]]>>]>>

\* InMemoryCounterStore.Increment as a bug would have it: an equal report
\* time is accepted too
CounterIncrement_AcceptEqual(store, name, currentValue) ==
    LET entry == MapGet(store, name, EmptyMap)
        key == toCounterKey(currentValue)
    IN  IF key \notin DOMAIN entry
        THEN MapPut(store, name, MapPut(entry, key, currentValue))
        ELSE IF entry[key].ReportTime <= currentValue.ReportTime
        THEN MapPut(store, name, MapPut(entry, key,
                 [currentValue EXCEPT !.Value = currentValue.Value + entry[key].Value]))
        ELSE MapPut(store, name, entry)

\* InMemoryCounterStore.Increment as a bug would have it: the incoming
\* sample replaces the total instead of adding to it
CounterIncrement_NoSum(store, name, currentValue) ==
    LET entry == MapGet(store, name, EmptyMap)
        key == toCounterKey(currentValue)
    IN  IF key \notin DOMAIN entry
        THEN MapPut(store, name, MapPut(entry, key, currentValue))
        ELSE IF entry[key].ReportTime < currentValue.ReportTime
        THEN MapPut(store, name, MapPut(entry, key, currentValue))
        ELSE MapPut(store, name, entry)

\* InMemoryCounterStore.Increment: the store after the call
CounterIncrement(store, name, currentValue) ==
    LET entry == MapGet(store, name, EmptyMap)
        key == toCounterKey(currentValue)
    IN  IF key \notin DOMAIN entry
        THEN MapPut(store, name, MapPut(entry, key, currentValue))
        ELSE IF entry[key].ReportTime < currentValue.ReportTime
        THEN MapPut(store, name, MapPut(entry, key,
                 [currentValue EXCEPT !.Value = currentValue.Value + entry[key].Value]))
        ELSE MapPut(store, name, entry)

\* MergeHistogram as a bug would have it: a bucket of other replaces the
\* bucket of h instead of being added to it
MergeHistogram_Overwrite(h, other) ==
    [h EXCEPT !.Sum = h.Sum + other.Sum,
              !.Count = h.Count + other.Count,
              !.Buckets = [b \in (DOMAIN h.Buckets) \cup (DOMAIN other.Buckets) |->
                              IF b \in DOMAIN other.Buckets THEN other.Buckets[b]
                              ELSE h.Buckets[b]]]

\* HistogramMetric.MergeHistogram: h after h.MergeHistogram(other)
MergeHistogram(h, other) ==
    [h EXCEPT !.Sum = h.Sum + other.Sum,
              !.Count = h.Count + other.Count,
              !.Buckets = [b \in (DOMAIN h.Buckets) \cup (DOMAIN other.Buckets) |->
                              MapGet(h.Buckets, b, 0) + MapGet(other.Buckets, b, 0)]]

\* InMemoryHistogramStore.Increment: the store after the call
HistogramIncrement(store, name, currentValue) ==
    LET entry == MapGet(store, name, EmptyMap)
        key == toCounterKey(currentValue)
    IN  IF key \notin DOMAIN entry
        THEN MapPut(store, name, MapPut(entry, key, currentValue))
        ELSE IF entry[key].ReportTime < currentValue.ReportTime
        THEN MapPut(store, name, MapPut(entry, key,
                 MergeHistogram(currentValue, entry[key])))
        ELSE MapPut(store, name, entry)

\* ListMetrics as a bug would have it: nothing is ever outside the TTL
OutsideTtl_Never(collected, t) == FALSE

\* ListMetrics: ttlWindowStart.After(collected.CollectionTime)
OutsideTtl(collected, t) == (t - DeltaTtl) > collected.CollectionTime

\* the keys ListMetrics, called at time t, deletes from the descriptor's entry
EvictedKeys(store, name, t) ==
    {k \in DOMAIN MapGet(store, name, EmptyMap) : OutsideTtl(store[name][k], t)}

\* ListMetrics: the copies returned (each with the key it was stored under)
ListMetrics(store, name, t) ==
    LET entry == MapGet(store, name, EmptyMap)
    IN  {[key |-> k, m |-> entry[k]] : k \in (DOMAIN entry) \ EvictedKeys(store, name, t)}

\* ListMetrics as a bug would have it: it returns the stored records and not
\* copies, so that the report time Complete stamps lands in the store
StoreAfterList_NoCopy(store, name, t) ==
    IF name \notin DOMAIN store THEN store
    ELSE [store EXCEPT ![name] =
            [k \in (DOMAIN store[name]) \ EvictedKeys(store, name, t) |->
                IF begun > store[name][k].CollectionTime
                THEN [store[name][k] EXCEPT !.ReportTime =
                         TruncateTime(t) - TruncateDuration(store[name][k].CollectionTime
                                          - store[name][k].ReportTime)]
                ELSE store[name][k]]]

\* ListMetrics: the store after the call
StoreAfterList(store, name, t) ==
    IF name \notin DOMAIN store THEN store
    ELSE [store EXCEPT ![name] =
            [k \in (DOMAIN store[name]) \ EvictedKeys(store, name, t) |-> store[name][k]]]

-----------------------------------------------------------------------------
(* The translator (timeSeriesMetrics) for aggregated DELTA series *)

\* the ConstMetric CollectNewConstMetric builds, CollectionTime = time.Now()
NewConstMetric(d, s, reportTime, value, t) ==
    [FqName |-> buildFQName(d), LabelKeys |-> LabelKeysOf(s),
     LabelValues |-> LabelValuesOf(s), Value |-> value,
     ReportTime |-> reportTime, CollectionTime |-> t]

\* the HistogramMetric CollectNewConstHistogram builds
NewHistogramMetric(d, s, reportTime, h, t) ==
    [FqName |-> buildFQName(d), LabelKeys |-> LabelKeysOf(s),
     LabelValues |-> LabelValuesOf(s), Sum |-> h.Sum, Count |-> h.Count,
     Buckets |-> h.Buckets, ReportTime |-> reportTime, CollectionTime |-> t]

\* hashLabelKeys: the hash of the sorted label keys (taken collision-free)
hashLabelKeys(labelKeys) == SortStrings(labelKeys)

\* the stale branch as a bug would have it: the stored report time is kept
StampStale_Keep(collected, reportingStartTime, t) == collected

\* completeDelta*Metrics: an entry not collected in this scrape is stamped
\* with the next sample time, now truncated to the minute minus the lag
StampStale(collected, reportingStartTime, t) ==
    IF reportingStartTime > collected.CollectionTime
    THEN [collected EXCEPT !.ReportTime =
             TruncateTime(t) - TruncateDuration(collected.CollectionTime - collected.ReportTime)]
    ELSE collected

\* the keys of allKeys a metric lacks, appended in some order (Go ranges over
\* a map here; the series of the model lack at most one key)
RECURSIVE AppendMissing(_, _)
AppendMissing(m, missing) ==
    IF missing = {} THEN m
    ELSE LET k == CHOOSE x \in missing : TRUE
         IN  AppendMissing([m EXCEPT !.LabelKeys = Append(@, k),
                                     !.LabelValues = Append(@, "")],
                           missing \ {k})

\* fillConstMetricsLabels / fillHistogramMetricsLabels on a list of metrics
fillMetricsLabels(vs) ==
    LET allKeys == UNION {{e.m.LabelKeys[i] : i \in DOMAIN e.m.LabelKeys} : e \in vs}
    IN  {[e EXCEPT !.m =
             IF Len(e.m.LabelKeys) # Cardinality(allKeys)
             THEN AppendMissing(e.m, allKeys \ {e.m.LabelKeys[i] : i \in DOMAIN e.m.LabelKeys})
             ELSE e.m] : e \in vs}

\* completeConstMetrics as a bug would have it: labels are never filled
completeMetrics_NoFill(vs) == vs

\* completeConstMetrics / completeHistogramMetrics for the metrics of one
\* fqName: labels are filled when two of them differ in KeysHash
completeMetrics(vs) ==
    IF \E a, b \in vs : hashLabelKeys(a.m.LabelKeys) # hashLabelKeys(b.m.LabelKeys)
    THEN fillMetricsLabels(vs)
    ELSE vs

\* completeDeltaConstMetrics / completeDeltaHistogramMetrics: what is sent to
\* the sink for the copies ListMetrics returned (one fqName per descriptor)
completeDeltaMetrics(descriptorMetrics, reportingStartTime, t, fill) ==
    LET stamped == {[e EXCEPT !.m = StampStale(e.m, reportingStartTime, t)] :
                       e \in descriptorMetrics}
    IN  IF fill THEN completeMetrics(stamped) ELSE stamped

-----------------------------------------------------------------------------
(* The state of a part that a specification leaves out *)

\* no engine has been asked to collect
ScrapeIdle ==
    /\ metricsTypePrefixes = {}
    /\ collectPc = "idle"
    /\ prefixPc = EmptyMap
    /\ got = EmptyMap
    /\ errChannel = 0
    /\ innerErrChannel = EmptyMap
    /\ descPc = EmptyMap
    /\ seriesGot = EmptyMap
    /\ sinkDescs = {}
    /\ failedDescs = {}
    /\ errorsReported = 0
    /\ selfMetrics = [scrapesTotal |-> 0, scrapeErrorsTotal |-> 0, lastScrapeError |-> 0]
    /\ atStart = [scrapesTotal |-> 0, scrapeErrorsTotal |-> 0]
    /\ selfEmitted = FALSE

\* no handler has been built
CacheIdle ==
    /\ clock = 0
    /\ cache = EmptyMap
    /\ handlerCollector = 0
    /\ nextCollector = 1
    /\ reqPc = EmptyMap
    /\ reqKey = EmptyMap
    /\ reqSeen = EmptyMap
    /\ lastAccess = EmptyMap
    /\ lastEngine = EmptyMap
    /\ lastGet = [op |-> "none"]
    /\ lastServe = [op |-> "none"]

\* no prefixes have been parsed and no request has selected any
PrefixIdle ==
    /\ flagPrefixes = <<>>
    /\ configuredPrefixes = <<>>
    /\ collectFilters = <<>>
    /\ projectFilters = {}
    /\ scrapedPrefixes = <<>>
    /\ scrapedProjects = <<>>
    /\ selectPc = "start"

\* NewMetricDeduplicator: an empty signature set, the counters and the gauge at zero
NewMetricDeduplicator ==
    [sentSignatures |-> {}, duplicateCount |-> 0, duplicatesTotal |-> 0,
     checksTotal |-> 0, uniqueMetricsGauge |-> 0]

\* no deduplicator has been asked anything
DedupIdle ==
    /\ dedup = NewMetricDeduplicator
    /\ mu = "free"
    /\ taskPc = EmptyMap
    /\ taskArgs = EmptyMap
    /\ dedupCalls = <<>>
    /\ prevMarked = {}
    /\ dedupScrape = 1
    /\ issued = 0

\* newDescriptorCache: an empty map, and nothing looked up or stored
DescIdle ==
    /\ descNow = 0
    /\ descCache = EmptyMap
    /\ descPending = EmptyMap
    /\ descWritten = EmptyMap
    /\ descLookup = [op |-> "none"]
    /\ descStores = 0

\* the parts other than the delta stores, the fan-out and the collector cache
\* No name has been handed to NormalizeMetricName.
NormIdle ==
    /\ metricName = <<>>
    /\ normalized = <<>>

\* reportTimeSeriesMetrics has not been called.
TransIdle ==
    /\ trDescriptor = [kind |-> "none"]
    /\ trFlags = [fillMissingLabels |-> FALSE, aggregateDeltas |-> FALSE,
                  dropDelegatedProjects |-> FALSE]
    /\ results = <<>>
    /\ newestTSPoint = [endTime |-> 0]
    /\ constMetrics = {}
    /\ histogramMetrics = {}
    /\ trSink = {}
    /\ trPc = "idle"

\* The metric that stands for nil in a task's locals.
NilMetric ==
    [FqName |-> "", LabelKeys |-> <<>>, LabelValues |-> <<>>, Value |-> 0,
     ReportTime |-> -1, CollectionTime |-> -1]

\* The locals of a task that is in no call and has made none.
NoCall ==
    [pc |-> "idle", op |-> "none", key |-> <<>>, currentValue |-> NilMetric,
     existing |-> NilMetric, at |-> 0, todo |-> {}, output |-> {}, expected |-> {},
     overlap |-> FALSE]

\* No task has called the counter store.
StoreIdle ==
    /\ entryMutex = "free"
    /\ storeTask = [t \in {"t1", "t2"} |-> NoCall]
    /\ linearStore = EmptyMap
    /\ lastStored = EmptyMap
    /\ storeCalls = 0

\* A descriptor whose metadata advertises no ingest delay.
NoDelay == -1

\* collectMetricsForDescriptors has not been called.
WindowIdle ==
    /\ winNow = 0
    /\ winOptions = [metricsInterval |-> 0, metricsOffset |-> 0, metricsIngestDelay |-> FALSE]
    /\ winDescriptors = EmptyMap
    /\ winBase = [pc |-> "idle", startTime |-> 0, endTime |-> 0]
    /\ winTask = EmptyMap
    /\ winRequest = EmptyMap

\* The ttl of a collector cache that has not been made.
NoTtl == -1

\* newHandler has not been called.
HandlerIdle ==
    /\ handlerFlags = [aggregateDeltas |-> FALSE, deltasTTL |-> 0, descriptorCacheTTL |-> 0]
    /\ collectorsTtl = NoTtl

ConfigIdle == WindowIdle /\ HandlerIdle

LaterIdle == NormIdle /\ TransIdle /\ StoreIdle /\ ConfigIdle

RestIdle == PrefixIdle /\ DedupIdle /\ DescIdle /\ LaterIdle

\* the delta stores are empty and no samples arrive
DeltaIdle ==
    /\ now = 0
    /\ served = {}
    /\ scrapeActive = FALSE
    /\ begun = 0
    /\ running = {}
    /\ counterStore = EmptyMap
    /\ histogramStore = EmptyMap
    /\ emitted = [d |-> "none", const |-> {}, hist |-> {}]
    /\ listed = [d |-> "none", const |-> {}, hist |-> {}]
    /\ lastOp = [op |-> "none"]
    /\ track = EmptyMap
    /\ continued = {}
    /\ samples = 0
    /\ lastEmitted = EmptyMap

-----------------------------------------------------------------------------
(* SpecDelta: scrapes that feed and list the delta stores *)

NoOp == [op |-> "none"]

Nothing == [d |-> "none", const |-> {}, hist |-> {}]

InitDelta ==
    /\ now = 0
    /\ served \in ServedChoices
    /\ scrapeActive = FALSE
    /\ begun = 0
    /\ running = {}
    /\ counterStore = EmptyMap
    /\ histogramStore = EmptyMap
    /\ emitted = Nothing
    /\ listed = Nothing
    /\ lastOp = NoOp
    /\ track = EmptyMap
    /\ continued = {}
    /\ samples = 0
    /\ lastEmitted = EmptyMap
    /\ ScrapeIdle
    /\ CacheIdle
    /\ RestIdle

Broken == [sum |-> 0, last |-> 0, n |-> 0]

\* history of the increments on one key since the key was absent, kept as
\* long as every increment had a report time later than the one before it
TrackIncrement(d, key, had, reportTime, amount) ==
    IF ~had
    THEN MapPut(track, <<d, key>>, [sum |-> amount, last |-> reportTime, n |-> 1])
    ELSE LET old == track[<<d, key>>]
         IN  IF old # Broken /\ reportTime > old.last
             THEN MapPut(track, <<d, key>>,
                      [sum |-> old.sum + amount, last |-> reportTime, n |-> old.n + 1])
             ELSE MapPut(track, <<d, key>>, Broken)

\* time passes
Tick ==
    /\ UNCHANGED otherThanDelta
    /\ now < MaxTime
    /\ now' = now + 1
    /\ lastOp' = NoOp
    /\ emitted' = Nothing
    /\ listed' = Nothing
    /\ UNCHANGED <<served, scrapeActive, begun, running, counterStore, histogramStore,
                   track, continued, samples,
                   lastEmitted>>

\* MonitoringCollector.Collect starts: begun = time.Now(), and one task per
\* descriptor that the descriptor listing returned
CollectBegin ==
    /\ UNCHANGED otherThanDelta
    /\ ~scrapeActive
    /\ \E ds \in (SUBSET served) \ {{}} : running' = ds
    /\ scrapeActive' = TRUE
    /\ begun' = now
    /\ lastOp' = NoOp
    /\ emitted' = Nothing
    /\ listed' = Nothing
    /\ UNCHANGED <<now, served, counterStore, histogramStore, track, continued, samples,
                   lastEmitted>>

\* timeSeriesMetrics.CollectNewConstMetric for a DELTA series with
\* aggregateDeltas on: the sample goes to the counter store and is not emitted
CollectNewConstMetric(d, s, reportTime, value) ==
    /\ UNCHANGED otherThanDelta
    /\ scrapeActive
    /\ d \in running
    /\ ValueTypeOf(d) = "INT64"
    /\ samples < MaxSamples
    /\ LET v == NewConstMetric(d, s, reportTime, value, now)
           key == toCounterKey(v)
           entry == MapGet(counterStore, d, EmptyMap)
           had == key \in DOMAIN entry
           accepted == ~had \/ entry[key].ReportTime < reportTime
       IN  /\ counterStore' = CounterIncrement(counterStore, d, v)
           /\ lastOp' = [op |-> "Increment", store |-> "counter", d |-> d, key |-> key,
                         had |-> had, reportTime |-> reportTime]
           /\ track' = TrackIncrement(d, key, had, reportTime, value)
           /\ continued' = IF accepted THEN continued \ {<<d, key>>} ELSE continued
    /\ samples' = samples + 1
    /\ UNCHANGED lastEmitted
    /\ emitted' = Nothing
    /\ listed' = Nothing
    /\ UNCHANGED <<now, served, scrapeActive, begun, running, histogramStore>>

\* timeSeriesMetrics.CollectNewConstHistogram for a DELTA series with
\* aggregateDeltas on
CollectNewConstHistogram(d, s, reportTime, h) ==
    /\ UNCHANGED otherThanDelta
    /\ scrapeActive
    /\ d \in running
    /\ ValueTypeOf(d) = "DISTRIBUTION"
    /\ samples < MaxSamples
    /\ LET v == NewHistogramMetric(d, s, reportTime, h, now)
           key == toCounterKey(v)
           entry == MapGet(histogramStore, d, EmptyMap)
           had == key \in DOMAIN entry
           accepted == ~had \/ entry[key].ReportTime < reportTime
       IN  /\ histogramStore' = HistogramIncrement(histogramStore, d, v)
           /\ lastOp' = [op |-> "Increment", store |-> "histogram", d |-> d, key |-> key,
                         had |-> had, reportTime |-> reportTime]
           /\ continued' = IF accepted THEN continued \ {<<d, key>>} ELSE continued
    /\ samples' = samples + 1
    /\ UNCHANGED lastEmitted
    /\ emitted' = Nothing
    /\ listed' = Nothing
    /\ UNCHANGED <<now, served, scrapeActive, begun, running, counterStore, track>>

\* timeSeriesMetrics.Complete(begun) of descriptor d's task: the counter store
\* is listed at the current time, the clock may advance (to t) before the
\* report times are stamped and the histogram store is listed.  The
\* fillMissingLabels flag of the collector is drawn here: it changes the
\* labels sent to the sink and nothing that is kept.
Complete(d) ==
    /\ UNCHANGED otherThanDelta
    /\ scrapeActive
    /\ d \in running
    /\ \E t \in {now, now + 1}, fillMissingLabels \in BOOLEAN :
        /\ t <= MaxTime
        /\ LET cl == ListMetrics(counterStore, d, now)
               hl == ListMetrics(histogramStore, d, t)
               ev == EvictedKeys(counterStore, d, now) \cup EvictedKeys(histogramStore, d, t)
               stale == {e.key : e \in {x \in cl \cup hl : begun > x.m.CollectionTime}}
           IN  /\ counterStore' = StoreAfterList(counterStore, d, now)
               /\ histogramStore' = StoreAfterList(histogramStore, d, t)
               /\ listed' = [d |-> d, const |-> cl, hist |-> hl]
               /\ emitted' = [d |-> d,
                              const |-> completeDeltaMetrics(cl, begun, t, fillMissingLabels),
                              hist |-> completeDeltaMetrics(hl, begun, t, fillMissingLabels)]
               /\ lastOp' = [op |-> "Complete", d |-> d, begun |-> begun,
                             listAt |-> now, stampAt |-> t, evicted |-> ev,
                             expiredContinued |->
                                 {k \in ev : /\ <<d, k>> \in continued
                                             /\ \E st \in {counterStore, histogramStore} :
                                                   /\ d \in DOMAIN st
                                                   /\ k \in DOMAIN st[d]
                                                   /\ st[d][k].CollectionTime + DeltaTtl < begun}]
               /\ track' = [dk \in (DOMAIN track) \ {<<d, k>> : k \in ev} |-> track[dk]]
               /\ continued' = (continued \ {<<d, k>> : k \in ev}) \cup {<<d, k>> : k \in stale}
               /\ lastEmitted' =
                     [dk \in ((DOMAIN lastEmitted) \ {<<d, k>> : k \in ev})
                              \cup {<<d, e.key>> : e \in cl \cup hl} |->
                         IF dk[1] = d
                         THEN LET e == CHOOSE x \in cl \cup hl : x.key = dk[2]
                                  sent == StampStale(e.m, begun, t)
                              IN  [ReportTime |-> sent.ReportTime,
                                   Value |-> IF e \in cl THEN sent.Value ELSE sent.Count]
                         ELSE lastEmitted[dk]]
               /\ now' = t
    /\ running' = running \ {d}
    /\ UNCHANGED <<served, scrapeActive, begun, samples>>

\* Collect returns once every descriptor task is done
CollectEnd ==
    /\ UNCHANGED otherThanDelta
    /\ scrapeActive
    /\ running = {}
    /\ scrapeActive' = FALSE
    /\ lastOp' = NoOp
    /\ emitted' = Nothing
    /\ listed' = Nothing
    /\ UNCHANGED <<now, served, begun, running, counterStore, histogramStore,
                   track, continued, samples,
                   lastEmitted>>

NextDelta ==
    \/ Tick
    \/ CollectBegin
    \/ \E d \in DescNames, s \in Series, reportTime \in 0..MaxTime, value \in SampleValues :
          s \in SeriesOf(d) /\ reportTime <= now /\ CollectNewConstMetric(d, s, reportTime, value)
    \/ \E d \in DescNames, s \in Series, reportTime \in 0..MaxTime, h \in SampleHistograms :
          s \in SeriesOf(d) /\ reportTime <= now /\ CollectNewConstHistogram(d, s, reportTime, h)
    \/ \E d \in DescNames : Complete(d)
    \/ CollectEnd

SpecDelta == InitDelta /\ [][NextDelta]_vars

-----------------------------------------------------------------------------
(* Properties of the delta stores and the translator (under SpecDelta) *)

\* C1: in the counter store, after increments v1..vn on a key that was
\* absent before, with strictly increasing report times, the stored value is
\* the sum of the vi and the stored report time is that of vn
C1_CounterSum ==
    \A d \in DOMAIN counterStore : \A k \in DOMAIN counterStore[d] :
        track[<<d, k>>] # Broken =>
            /\ counterStore[d][k].Value = track[<<d, k>>].sum
            /\ counterStore[d][k].ReportTime = track[<<d, k>>].last

\* C1 witness: a key that took two increments of different values, the
\* second with the later report time
C1_Witness ==
    \E d \in DOMAIN counterStore : \E k \in DOMAIN counterStore[d] :
        /\ track[<<d, k>>].n >= 2
        /\ track[<<d, k>>].sum = 3
        /\ counterStore[d][k].Value = 3

\* C2: in either store, an increment whose report time is not later than the
\* stored one leaves the stored entry (value; sum, count and buckets) as it was
C2_StaleDiscarded ==
    [][\A d \in DescNames :
          (lastOp'.op = "Increment" /\ lastOp'.d = d /\ lastOp'.had) =>
              /\ (lastOp'.store = "counter"
                  /\ lastOp'.reportTime <= counterStore[d][lastOp'.key].ReportTime)
                 => counterStore'[d][lastOp'.key] = counterStore[d][lastOp'.key]
              /\ (lastOp'.store = "histogram"
                  /\ lastOp'.reportTime <= histogramStore[d][lastOp'.key].ReportTime)
                 => histogramStore'[d][lastOp'.key] = histogramStore[d][lastOp'.key]]_vars

\* C2 witness: a histogram with an older report time than the stored one has
\* just been handed to the histogram store, which holds a merged total
C2_Witness ==
    /\ lastOp.op = "Increment"
    /\ lastOp.store = "histogram"
    /\ lastOp.had
    /\ lastOp.reportTime < histogramStore[lastOp.d][lastOp.key].ReportTime

\* the entries of descriptor d in a store that are inside the TTL at time t
LiveEntries(store, d, t) ==
    {[key |-> k, m |-> store[d][k]] :
        k \in {x \in DOMAIN MapGet(store, d, EmptyMap) :
                  store[d][x].CollectionTime >= t - DeltaTtl}}

\* C3: list(name) returns exactly the entries of the descriptor with
\* collectionTime >= now - ttl, and after the call the store holds no other
\* entry of the descriptor
C3_ListTtl ==
    [][lastOp'.op = "Complete" =>
          LET d == lastOp'.d
          IN  /\ listed'.const = LiveEntries(counterStore, d, lastOp'.listAt)
              /\ listed'.hist = LiveEntries(histogramStore, d, lastOp'.stampAt)
              /\ d \in DOMAIN counterStore =>
                    DOMAIN counterStore'[d] = {e.key : e \in listed'.const}
              /\ d \in DOMAIN histogramStore =>
                    DOMAIN histogramStore'[d] = {e.key : e \in listed'.hist}]_vars

\* C3 witness: one list call that returned an entry and evicted another
C3_Witness ==
    /\ lastOp.op = "Complete"
    /\ lastOp.evicted # {}
    /\ listed.const # {}

\* C4: a series whose last accepted sample was collected more than the TTL
\* before the scrape began is not emitted by that scrape
C4_ExpiredNotEmitted ==
    lastOp.op = "Complete" =>
        \A e \in emitted.const \cup emitted.hist :
            ~(e.m.CollectionTime + DeltaTtl < lastOp.begun)

\* C4 witness: an entry that an earlier scrape emitted by stale continuation
\* is now older than the TTL, has been evicted and is not emitted
C4_Witness ==
    /\ lastOp.op = "Complete"
    /\ lastOp.expiredContinued # {}
    /\ \A k \in lastOp.expiredContinued :
          k \notin {e.key : e \in emitted.const \cup emitted.hist}

\* the report time complete() emits for a stored entry
ExpectedReportTime(m) ==
    IF m.CollectionTime < lastOp.begun
    THEN TruncateTime(lastOp.stampAt)
            - TruncateDuration(m.CollectionTime - m.ReportTime)
    ELSE m.ReportTime

\* C5: complete() emits every live entry of the descriptor once, with its
\* accumulated value, at the synthesized report time if the entry was not
\* touched in this scrape and at its stored report time otherwise
C5_CompleteEmits ==
    lastOp.op = "Complete" =>
        LET d == lastOp.d
        IN  /\ \A k \in DOMAIN MapGet(counterStore, d, EmptyMap) :
                  LET m == counterStore[d][k]
                      es == {e \in emitted.const : e.key = k}
                  IN  /\ Cardinality(es) = 1
                      /\ \A e \in es : /\ e.m.Value = m.Value
                                       /\ e.m.ReportTime = ExpectedReportTime(m)
            /\ \A k \in DOMAIN MapGet(histogramStore, d, EmptyMap) :
                  LET m == histogramStore[d][k]
                      es == {e \in emitted.hist : e.key = k}
                  IN  /\ Cardinality(es) = 1
                      /\ \A e \in es : /\ e.m.Sum = m.Sum
                                       /\ e.m.Count = m.Count
                                       /\ e.m.Buckets = m.Buckets
                                       /\ e.m.ReportTime = ExpectedReportTime(m)

\* C5 witness: one complete() that emitted an untouched entry at a
\* synthesized report time (its lag not a whole number of minutes) and an
\* entry touched in this scrape at its own report time
C5_Witness ==
    /\ lastOp.op = "Complete"
    /\ \E e1, e2 \in emitted.const :
          /\ e1.m.CollectionTime < lastOp.begun
          /\ (e1.m.CollectionTime
                 - counterStore[lastOp.d][e1.key].ReportTime) % TicksPerMinute # 0
          /\ e1.m.ReportTime # counterStore[lastOp.d][e1.key].ReportTime
          /\ e2.m.CollectionTime >= lastOp.begun
          /\ e2.m.ReportTime = counterStore[lastOp.d][e2.key].ReportTime

\* the count a histogram holds at an upper bound, 0 if it has no such bucket
BucketCount(h, upperBound) ==
    IF upperBound \in DOMAIN h.Buckets THEN h.Buckets[upperBound] ELSE 0

\* C21: an increment of the histogram store with a histogram b whose report
\* time is later than that of the stored histogram a leaves a stored histogram
\* with sum a.sum + b.sum, count a.count + b.count and, for every upper bound
\* present in either, a's count plus b's count, a missing side counting as 0
C21_HistogramMerge ==
    [][\A d \in DescNames, s \in Series, reportTime \in 0..MaxTime, b \in SampleHistograms :
          LET key == toCounterKey(NewHistogramMetric(d, s, reportTime, b, now))
          IN  (/\ CollectNewConstHistogram(d, s, reportTime, b)
               /\ d \in DOMAIN histogramStore
               /\ key \in DOMAIN histogramStore[d]
               /\ histogramStore[d][key].ReportTime < reportTime)
              => LET a == histogramStore[d][key]
                     result == histogramStore'[d][key]
                 IN  /\ result.Sum = a.Sum + b.Sum
                     /\ result.Count = a.Count + b.Count
                     /\ DOMAIN result.Buckets = (DOMAIN a.Buckets) \cup (DOMAIN b.Buckets)
                     /\ \A upperBound \in DOMAIN result.Buckets :
                           result.Buckets[upperBound]
                               = BucketCount(a, upperBound) + BucketCount(b, upperBound)
                     /\ result.ReportTime = reportTime]_vars

\* C21 witness: the histogram store has just merged the two-bucket histogram
\* and the three-bucket one, which differ in the upper bounds they carry
C21_Witness ==
    /\ lastOp.op = "Increment"
    /\ lastOp.store = "histogram"
    /\ lastOp.had
    /\ LET m == histogramStore[lastOp.d][lastOp.key]
       IN  /\ m.ReportTime = lastOp.reportTime
           /\ m.Count = 3
           /\ m.Sum = 7
           /\ m.Buckets = (1 :> 1 @@ 5 :> 1 @@ InfBound :> 3)

\* Complete of descriptor d, listing at time at, changes a store only by
\* removing entries of d whose collection time is before at - ttl.
OnlyEvicted(before, after, d, at) ==
    /\ DOMAIN after = DOMAIN before
    /\ \A x \in DOMAIN before :
          /\ DOMAIN after[x] \subseteq DOMAIN before[x]
          /\ \A k \in DOMAIN after[x] : after[x][k] = before[x][k]
          /\ \A k \in (DOMAIN before[x]) \ DOMAIN after[x] :
                x = d /\ before[x][k].CollectionTime < at - DeltaTtl

\* C36: Complete leaves every entry that stays in a delta store exactly as it
\* was (value, report time, collection time, labels), whatever report time
\* and labels the sent copies carry; the entries it removes are entries of
\* its descriptor that are outside the ttl.
C36_StoreKept ==
    [][lastOp'.op = "Complete" =>
          /\ OnlyEvicted(counterStore, counterStore', lastOp'.d, lastOp'.listAt)
          /\ OnlyEvicted(histogramStore, histogramStore', lastOp'.d, lastOp'.stampAt)]_vars

\* Complete has sent a counter entry with a report time other than the stored
\* one and with a label key filled in, and the store holds the entry with
\* its own report time and labels.
C36_Witness ==
    /\ lastOp.op = "Complete"
    /\ \E e \in emitted.const :
          /\ e.key \in DOMAIN MapGet(counterStore, lastOp.d, EmptyMap)
          /\ e.m.ReportTime # counterStore[lastOp.d][e.key].ReportTime
          /\ Len(e.m.LabelKeys) > Len(counterStore[lastOp.d][e.key].LabelKeys)
          /\ e.m.Value = counterStore[lastOp.d][e.key].Value

\* C37: the report time Complete sends for a key that was sent by an earlier
\* scrape and has stayed in the store since is not earlier than the report
\* time sent then, whether either of the two is the stored report time or a
\* synthesized one.
C37_EmittedTimeMonotone ==
    [][lastOp'.op = "Complete" =>
          \A e \in emitted'.const \cup emitted'.hist :
              <<lastOp'.d, e.key>> \in DOMAIN lastEmitted =>
                  e.m.ReportTime >= lastEmitted[<<lastOp'.d, e.key>>].ReportTime]_vars

-----------------------------------------------------------------------------
(* SpecScrape: the goroutine fan-out of MonitoringCollector.Collect *)

MaxScrapes == 2

MaxSeries == 1

AllPrefixes == {"p1", "p2"}

\* the prefix sets an engine may be built with
PrefixChoices == {{"p1"}, {"p1", "p2"}}

\* what the source returns, in order, when the descriptors of a prefix are
\* listed; the same type can come back twice (from two delegated projects)
DescriptorsOf(p) == IF p = "p1" THEN <<"a1", "a2">> ELSE <<"b1", "b1">>

AllDescriptors == {"a1", "a2", "b1"}

PrefixOf(d) == IF d = "b1" THEN "p2" ELSE "p1"

\* uniqueDescriptors: the types among the descriptors listed so far
UniqueDescriptors(p, n) == {DescriptorsOf(p)[i] : i \in 1..n}

\* make(chan error, len(c.metricsTypePrefixes))
ErrChannelCap == Cardinality(metricsTypePrefixes)

\* make(chan error, len(uniqueDescriptors))
InnerErrChannelCap(p) == Cardinality(UniqueDescriptors(p, got[p]))

\* "return <-errChannel" on a closed channel: the first queued error, or nil
Receive(queued) == IF queued > 0 THEN "err" ELSE "nil"

ErrorMetric_Zero(err) == 0

\* Collect: errorMetric is 1 when reportMonitoringMetrics returned an error
ErrorMetric(err) == IF err # "nil" THEN 1 ELSE 0

InitScrape ==
    /\ metricsTypePrefixes \in PrefixChoices
    /\ collectPc = "idle"
    /\ prefixPc = [p \in metricsTypePrefixes |-> "idle"]
    /\ got = [p \in metricsTypePrefixes |-> 0]
    /\ errChannel = 0
    /\ innerErrChannel = [p \in metricsTypePrefixes |-> 0]
    /\ descPc = [d \in AllDescriptors |-> "idle"]
    /\ seriesGot = [d \in AllDescriptors |-> 0]
    /\ sinkDescs = {}
    /\ failedDescs = {}
    /\ errorsReported = 0
    /\ selfMetrics = [scrapesTotal |-> 0, scrapeErrorsTotal |-> 0, lastScrapeError |-> 0]
    /\ atStart = [scrapesTotal |-> 0, scrapeErrorsTotal |-> 0]
    /\ selfEmitted = FALSE
    /\ DeltaIdle
    /\ CacheIdle
    /\ RestIdle

\* Collect calls reportMonitoringMetrics, which starts one goroutine per
\* prefix and goes to wg.Wait()
CollectStart ==
    /\ UNCHANGED otherThanScrape
    /\ collectPc = "idle"
    /\ selfMetrics.scrapesTotal < MaxScrapes
    /\ collectPc' = "waiting"
    /\ prefixPc' = [p \in metricsTypePrefixes |-> "listing"]
    /\ got' = [p \in metricsTypePrefixes |-> 0]
    /\ errChannel' = 0
    /\ innerErrChannel' = [p \in metricsTypePrefixes |-> 0]
    /\ descPc' = [d \in AllDescriptors |-> "idle"]
    /\ seriesGot' = [d \in AllDescriptors |-> 0]
    /\ sinkDescs' = {}
    /\ failedDescs' = {}
    /\ errorsReported' = 0
    /\ atStart' = [scrapesTotal |-> selfMetrics.scrapesTotal,
                   scrapeErrorsTotal |-> selfMetrics.scrapeErrorsTotal]
    /\ selfEmitted' = FALSE
    /\ UNCHANGED <<metricsTypePrefixes, selfMetrics>>

\* the prefix task enters collectMetricsForDescriptors with the descriptors
\* it has: one goroutine per unique descriptor, then wg.Wait()
EnterCollectMetricsForDescriptors(p) ==
    /\ prefixPc' = [prefixPc EXCEPT ![p] = "collecting"]
    /\ descPc' = [d \in AllDescriptors |->
                     IF d \in UniqueDescriptors(p, got[p]) THEN "listing" ELSE descPc[d]]

\* prefix task: it.Next() returns a descriptor
DescriptorNext(p) ==
    /\ UNCHANGED otherThanScrape
    /\ prefixPc[p] = "listing"
    /\ got[p] < Len(DescriptorsOf(p))
    /\ got' = [got EXCEPT ![p] = @ + 1]
    /\ UNCHANGED <<metricsTypePrefixes, collectPc, prefixPc, errChannel, innerErrChannel,
                   descPc, seriesGot, sinkDescs, failedDescs, errorsReported,
                   selfMetrics, atStart, selfEmitted>>

\* prefix task: it.Next() returns iterator.Done
DescriptorDone(p) ==
    /\ UNCHANGED otherThanScrape
    /\ prefixPc[p] = "listing"
    /\ got[p] = Len(DescriptorsOf(p))
    /\ EnterCollectMetricsForDescriptors(p)
    /\ UNCHANGED <<metricsTypePrefixes, collectPc, got, errChannel, innerErrChannel,
                   seriesGot, sinkDescs, failedDescs, errorsReported,
                   selfMetrics, atStart, selfEmitted>>

\* prefix task: it.Next() returns an error (at any page, a timeout included);
\* the task goes to "errChannel <- ..." at line 259
DescriptorError(p) ==
    /\ UNCHANGED otherThanScrape
    /\ prefixPc[p] = "listing"
    /\ prefixPc' = [prefixPc EXCEPT ![p] = "send259"]
    /\ errorsReported' = errorsReported + 1
    /\ UNCHANGED <<metricsTypePrefixes, collectPc, got, errChannel, innerErrChannel,
                   descPc, seriesGot, sinkDescs, failedDescs,
                   selfMetrics, atStart, selfEmitted>>

\* prefix task: the send at line 259 goes through (the channel has room),
\* the loop is left and collectMetricsForDescriptors is entered
Send259(p) ==
    /\ UNCHANGED otherThanScrape
    /\ prefixPc[p] = "send259"
    /\ errChannel < ErrChannelCap
    /\ errChannel' = errChannel + 1
    /\ EnterCollectMetricsForDescriptors(p)
    /\ UNCHANGED <<metricsTypePrefixes, collectPc, got, innerErrChannel,
                   seriesGot, sinkDescs, failedDescs, errorsReported,
                   selfMetrics, atStart, selfEmitted>>

\* descriptor task: it.Next() returns a time series
SeriesNext(d) ==
    /\ UNCHANGED otherThanScrape
    /\ descPc[d] = "listing"
    /\ seriesGot[d] < MaxSeries
    /\ seriesGot' = [seriesGot EXCEPT ![d] = @ + 1]
    /\ UNCHANGED <<metricsTypePrefixes, collectPc, prefixPc, got, errChannel,
                   innerErrChannel, descPc, sinkDescs, failedDescs, errorsReported,
                   selfMetrics, atStart, selfEmitted>>

\* descriptor task: it.Next() returns iterator.Done; reportTimeSeriesMetrics
\* sends the series to the sink and the task ends
SeriesDone(d) ==
    /\ UNCHANGED otherThanScrape
    /\ descPc[d] = "listing"
    /\ descPc' = [descPc EXCEPT ![d] = "done"]
    /\ sinkDescs' = sinkDescs \cup {d}
    /\ UNCHANGED <<metricsTypePrefixes, collectPc, prefixPc, got, errChannel,
                   innerErrChannel, seriesGot, failedDescs, errorsReported,
                   selfMetrics, atStart, selfEmitted>>

\* descriptor task: it.Next() returns an error; the task goes to
\* "errChannel <- err" at line 365
SeriesError(d) ==
    /\ UNCHANGED otherThanScrape
    /\ descPc[d] = "listing"
    /\ descPc' = [descPc EXCEPT ![d] = "send365"]
    /\ failedDescs' = failedDescs \cup {d}
    /\ errorsReported' = errorsReported + 1
    /\ UNCHANGED <<metricsTypePrefixes, collectPc, prefixPc, got, errChannel,
                   innerErrChannel, seriesGot, sinkDescs,
                   selfMetrics, atStart, selfEmitted>>

\* descriptor task: the send at line 365 goes through, the loop is left,
\* reportTimeSeriesMetrics sends what was listed to the sink, the task ends
Send365(d) ==
    /\ UNCHANGED otherThanScrape
    /\ descPc[d] = "send365"
    /\ innerErrChannel[PrefixOf(d)] < InnerErrChannelCap(PrefixOf(d))
    /\ innerErrChannel' = [innerErrChannel EXCEPT ![PrefixOf(d)] = @ + 1]
    /\ descPc' = [descPc EXCEPT ![d] = "done"]
    /\ sinkDescs' = sinkDescs \cup {d}
    /\ UNCHANGED <<metricsTypePrefixes, collectPc, prefixPc, got, errChannel,
                   seriesGot, failedDescs, errorsReported,
                   selfMetrics, atStart, selfEmitted>>

\* prefix task: collectMetricsForDescriptors' wg.Wait() returns, the channel
\* is closed and its first error, if any, is returned; with an error the
\* task goes to "errChannel <- ..." at line 267, without one it ends
CollectMetricsReturn(p) ==
    /\ UNCHANGED otherThanScrape
    /\ prefixPc[p] = "collecting"
    /\ \A d \in UniqueDescriptors(p, got[p]) : descPc[d] = "done"
    /\ prefixPc' = [prefixPc EXCEPT ![p] =
                       IF Receive(innerErrChannel[p]) # "nil" THEN "send267" ELSE "done"]
    /\ UNCHANGED <<metricsTypePrefixes, collectPc, got, errChannel, innerErrChannel,
                   descPc, seriesGot, sinkDescs, failedDescs, errorsReported,
                   selfMetrics, atStart, selfEmitted>>

\* prefix task: the send at line 267 goes through and the task ends
Send267(p) ==
    /\ UNCHANGED otherThanScrape
    /\ prefixPc[p] = "send267"
    /\ errChannel < ErrChannelCap
    /\ errChannel' = errChannel + 1
    /\ prefixPc' = [prefixPc EXCEPT ![p] = "done"]
    /\ UNCHANGED <<metricsTypePrefixes, collectPc, got, innerErrChannel,
                   descPc, seriesGot, sinkDescs, failedDescs, errorsReported,
                   selfMetrics, atStart, selfEmitted>>

\* reportMonitoringMetrics' wg.Wait() returns once every prefix task has
\* ended; the channel is closed, its first error returned, and Collect
\* updates and emits the self-metrics
CollectFinish ==
    /\ UNCHANGED otherThanScrape
    /\ collectPc = "waiting"
    /\ \A p \in metricsTypePrefixes : prefixPc[p] = "done"
    /\ LET err == Receive(errChannel)
       IN  selfMetrics' =
               [scrapesTotal |-> selfMetrics.scrapesTotal + 1,
                scrapeErrorsTotal |-> selfMetrics.scrapeErrorsTotal + ErrorMetric(err),
                lastScrapeError |-> ErrorMetric(err)]
    /\ selfEmitted' = TRUE
    /\ collectPc' = "idle"
    /\ UNCHANGED <<metricsTypePrefixes, prefixPc, got, errChannel, innerErrChannel,
                   descPc, seriesGot, sinkDescs, failedDescs, errorsReported, atStart>>

NextScrape ==
    \/ CollectStart
    \/ \E p \in AllPrefixes : p \in metricsTypePrefixes /\ DescriptorNext(p)
    \/ \E p \in AllPrefixes : p \in metricsTypePrefixes /\ DescriptorDone(p)
    \/ \E p \in AllPrefixes : p \in metricsTypePrefixes /\ DescriptorError(p)
    \/ \E p \in AllPrefixes : p \in metricsTypePrefixes /\ Send259(p)
    \/ \E d \in AllDescriptors : SeriesNext(d)
    \/ \E d \in AllDescriptors : SeriesDone(d)
    \/ \E d \in AllDescriptors : SeriesError(d)
    \/ \E d \in AllDescriptors : Send365(d)
    \/ \E p \in AllPrefixes : p \in metricsTypePrefixes /\ CollectMetricsReturn(p)
    \/ \E p \in AllPrefixes : p \in metricsTypePrefixes /\ Send267(p)
    \/ CollectFinish

SpecScrape == InitScrape /\ [][NextScrape]_vars

-----------------------------------------------------------------------------
(* Properties of the scrape fan-out (under SpecScrape) *)

\* a prefix task stands at a send on the full errChannel; nothing receives
\* from that channel before every prefix task has ended, so it stays there
Blocked(p) ==
    /\ prefixPc[p] \in {"send259", "send267"}
    /\ errChannel = ErrChannelCap

\* C6: for every combination of source-call outcomes Collect terminates:
\* every prefix task and descriptor task finishes and the self-metrics are
\* emitted.  Stated on finite runs: no prefix task ever stands blocked for
\* good at a send, which would keep wg.Wait() and so Collect from returning.
C6_CollectTerminates ==
    \A p \in metricsTypePrefixes : ~Blocked(p)

\* the scrape has ended: Collect has emitted the self-metrics and returned
ScrapeEnded == collectPc = "idle" /\ selfEmitted

\* C7: at the end of each scrape last_scrape_error is 1 iff some prefix or
\* descriptor task reported an error in that scrape; scrape_errors_total has
\* then grown by exactly 1, however many errors there were, and is unchanged
\* otherwise; scrapes_total has grown by exactly 1.
C7_SelfMetrics ==
    ScrapeEnded =>
        /\ selfMetrics.lastScrapeError \in {0, 1}
        /\ (selfMetrics.lastScrapeError = 1) <=> (errorsReported > 0)
        /\ selfMetrics.scrapeErrorsTotal =
               atStart.scrapeErrorsTotal + (IF errorsReported > 0 THEN 1 ELSE 0)
        /\ selfMetrics.scrapesTotal = atStart.scrapesTotal + 1

\* a second scrape ended in which two tasks reported errors and the error
\* counter grew by one, after a first scrape that had errors as well
C7_Witness ==
    /\ ScrapeEnded
    /\ errorsReported >= 2
    /\ atStart.scrapesTotal = 1
    /\ atStart.scrapeErrorsTotal = 1
    /\ selfMetrics.scrapeErrorsTotal = 2
    /\ selfMetrics.lastScrapeError = 1

\* the descriptors that the descriptor listings of this scrape returned
ListedDescriptors ==
    UNION {UniqueDescriptors(p, got[p]) : p \in metricsTypePrefixes}

\* no task of the scrape will take another step
NoTaskCanStep ==
    /\ collectPc = "waiting" \/ selfEmitted
    /\ \A p \in metricsTypePrefixes : prefixPc[p] = "done" \/ Blocked(p)

\* C8: when the time-series listing fails for one descriptor, every other
\* descriptor of the same scrape, under the same or another prefix, still
\* runs to completion and has its series emitted.  Stated on finite runs:
\* once no task can take another step, every other listed descriptor's task
\* has ended and its series are in the sink.
C8_OthersComplete ==
    NoTaskCanStep =>
        \A f \in failedDescs : \A d \in ListedDescriptors \ {f} :
            descPc[d] = "done" /\ d \in sinkDescs

-----------------------------------------------------------------------------
(* SpecCache: the handler, getCollector and the CollectorCache *)

MaxClock == 3

CacheTtl == 2

MaxCollectors == 3

\* requests that may be inside getCollector at the same time; they are
\* interchangeable, so the second is used only while the first is busy
Requests == {"r1", "r2"}

\* metric type prefixes and collect values are strings, kept as sequences of
\* characters
StrA == <<"a">>

StrB == <<"b">>

StrAB == <<"a", "b">>

\* h.metricsPrefixes, the configured prefixes as main hands them to newHandler
metricsPrefixes == <<StrA, StrB>>

\* the collect values a filtered request may carry, in the order in which
\* the filters map is iterated
FilterChoices == {<<StrA, StrB>>, <<StrAB>>}

CharRank(c) == CASE c = "a" -> 1 [] c = "b" -> 2 [] OTHER -> 3

HasPrefix_Either(s, prefix) ==
    \/ Len(prefix) <= Len(s) /\ SubSeq(s, 1, Len(prefix)) = prefix
    \/ Len(s) <= Len(prefix) /\ SubSeq(prefix, 1, Len(s)) = s

\* strings.HasPrefix(s, prefix)
HasPrefix(s, prefix) ==
    /\ Len(prefix) <= Len(s)
    /\ SubSeq(s, 1, Len(prefix)) = prefix

\* the order of slices.Sort on strings
RECURSIVE StrLess(_, _)
StrLess(x, y) ==
    IF x = <<>> THEN y # <<>>
    ELSE IF y = <<>> THEN FALSE
    ELSE IF Head(x) = Head(y) THEN StrLess(Tail(x), Tail(y))
    ELSE CharRank(Head(x)) < CharRank(Head(y))

\* one string put at its place in a sorted list
RECURSIVE InsertSorted(_, _)
InsertSorted(sorted, x) ==
    IF sorted = <<>> THEN <<x>>
    ELSE IF StrLess(x, Head(sorted)) THEN <<x>> \o sorted
    ELSE <<Head(sorted)>> \o InsertSorted(Tail(sorted), x)

\* slices.Sort(inputPrefixes)
RECURSIVE SlicesSort(_)
SlicesSort(list) ==
    IF list = <<>> THEN <<>>
    ELSE InsertSorted(SlicesSort(Tail(list)), Head(list))

\* slices.Compact: runs of equal consecutive elements become one element
RECURSIVE SlicesCompact(_)
SlicesCompact(list) ==
    IF Len(list) <= 1 THEN list
    ELSE IF list[1] = list[2] THEN SlicesCompact(Tail(list))
    ELSE <<list[1]>> \o SlicesCompact(Tail(list))

DropCovered_Keep(uniquePrefixes, i, kept) == uniquePrefixes

\* the loop of parseMetricTypePrefixes over uniquePrefixes[i..]: a prefix
\* that starts with the last one kept is dropped
RECURSIVE DropCovered(_, _, _)
DropCovered(uniquePrefixes, i, kept) ==
    IF i > Len(uniquePrefixes) THEN kept
    ELSE IF i # 1 /\ HasPrefix(uniquePrefixes[i], kept[Len(kept)])
         THEN DropCovered(uniquePrefixes, i + 1, kept)
         ELSE DropCovered(uniquePrefixes, i + 1, Append(kept, uniquePrefixes[i]))

parseMetricTypePrefixes(inputPrefixes) ==
    DropCovered(SlicesCompact(SlicesSort(inputPrefixes)), 1, <<>>)

AppendMatching_All(configured, filters, i) == filters

\* the loops of filterMetricTypePrefixes: for every configured prefix, from
\* position i on, every filter that starts with it is appended
RECURSIVE AppendMatching(_, _, _)
AppendMatching(configured, filters, i) ==
    IF i > Len(configured) THEN <<>>
    ELSE SelectSeq(filters, LAMBDA filter : HasPrefix(filter, configured[i]))
             \o AppendMatching(configured, filters, i + 1)

\* handler.filterMetricTypePrefixes for a handler with the given configured
\* prefixes; filters = <<>> is a request without collect values
filterMetricTypePrefixes(configured, filters) ==
    IF Len(filters) > 0
    THEN parseMetricTypePrefixes(AppendMatching(configured, filters, 1))
    ELSE parseMetricTypePrefixes(configured)

\* collectorKey of getCollector, for the one project of the model
collectorKey(filters) ==
    <<"project", filterMetricTypePrefixes(metricsPrefixes, filters)>>

NoCacheOp == [op |-> "none"]

\* the locals of a request that is not inside getCollector
NoKey == <<>>

NoSeen == [prev |-> 0, live |-> FALSE, collector |-> 0, at |-> 0, idleSince |-> -1]

\* requests holding the cache's read lock, inside CollectorCache.Get
Readers == {r \in Requests : reqPc[r] \in {"getExtend", "getDelete"}}

\* the state after newHandler: h.handler = h.innerHandler(nil) has built the
\* collector for the configured prefixes and stored it in the cache
InitCache ==
    /\ clock = 0
    /\ cache = MapPut(EmptyMap, collectorKey(<<>>), [collector |-> 1, expiry |-> CacheTtl])
    /\ handlerCollector = 1
    /\ nextCollector = 2
    /\ reqPc = [r \in Requests |-> "idle"]
    /\ reqKey = [r \in Requests |-> NoKey]
    /\ reqSeen = [r \in Requests |-> NoSeen]
    /\ lastAccess = MapPut(EmptyMap, collectorKey(<<>>), 0)
    /\ lastEngine = EmptyMap
    /\ lastGet = NoCacheOp
    /\ lastServe = NoCacheOp
    /\ DeltaIdle
    /\ ScrapeIdle
    /\ RestIdle

\* what a request sees on arrival: the collector that served the last scrape
\* for its key, whether the cache holds an unexpired entry for the key, and
\* the collector of the entry that Get looks up
Seen(key) ==
    [prev |-> MapGet(lastEngine, key, 0),
     live |-> key \in DOMAIN cache /\ ~(clock > cache[key].expiry),
     collector |-> IF key \in DOMAIN cache THEN cache[key].collector ELSE 0,
     at |-> clock,
     idleSince |-> MapGet(lastAccess, key, -1)]

\* time passes
CacheTick ==
    /\ UNCHANGED otherThanCache
    /\ clock < MaxClock
    /\ clock' = clock + 1
    /\ lastGet' = NoCacheOp
    /\ lastServe' = NoCacheOp
    /\ UNCHANGED <<cache, handlerCollector, nextCollector, reqPc, reqKey, reqSeen,
                   lastAccess, lastEngine>>

\* ServeHTTP without collect values: h.handler, built at startup, serves
ServeUnfiltered ==
    /\ UNCHANGED otherThanCache
    /\ LET key == collectorKey(<<>>)
       IN  /\ lastServe' = [op |-> "serve", key |-> key, collector |-> handlerCollector,
                            prev |-> Seen(key).prev, live |-> Seen(key).live]
           /\ lastEngine' = MapPut(lastEngine, key, handlerCollector)
    /\ lastGet' = NoCacheOp
    /\ UNCHANGED <<clock, cache, handlerCollector, nextCollector, reqPc, reqKey, reqSeen,
                   lastAccess>>

\* ServeHTTP with collect values: getCollector calls CollectorCache.Get,
\* which takes the read lock, looks the key up and tests the expiry
GetLookup(r, filters) ==
    /\ UNCHANGED otherThanCache
    /\ reqPc[r] = "idle"
    /\ r = "r2" => reqPc["r1"] # "idle"
    /\ LET key == collectorKey(filters)
       IN  /\ reqKey' = [reqKey EXCEPT ![r] = key]
           /\ reqSeen' = [reqSeen EXCEPT ![r] = Seen(key)]
           /\ IF key \notin DOMAIN cache
              THEN /\ reqPc' = [reqPc EXCEPT ![r] = "construct"]
                   /\ lastGet' = [op |-> "Get", key |-> key, sawEntry |-> FALSE,
                                  sawExpired |-> FALSE, found |-> FALSE, collector |-> 0,
                                  at |-> clock, idleSince |-> Seen(key).idleSince]
              ELSE /\ reqPc' = [reqPc EXCEPT ![r] =
                                   IF clock > cache[key].expiry THEN "getDelete"
                                   ELSE "getExtend"]
                   /\ lastGet' = NoCacheOp
    /\ lastServe' = NoCacheOp
    /\ UNCHANGED <<clock, cache, handlerCollector, nextCollector, lastAccess, lastEngine>>

\* Get, entry expired: delete(c.cache, key), return nil, false; getCollector
\* goes on to construct a collector
GetDelete(r) ==
    /\ UNCHANGED otherThanCache
    /\ reqPc[r] = "getDelete"
    /\ cache' = [k \in (DOMAIN cache) \ {reqKey[r]} |-> cache[k]]
    /\ reqPc' = [reqPc EXCEPT ![r] = "construct"]
    /\ lastGet' = [op |-> "Get", key |-> reqKey[r], sawEntry |-> TRUE,
                   sawExpired |-> TRUE, found |-> FALSE, collector |-> 0,
                   at |-> reqSeen[r].at, idleSince |-> reqSeen[r].idleSince]
    /\ lastServe' = NoCacheOp
    /\ UNCHANGED <<clock, handlerCollector, nextCollector, reqKey, reqSeen,
                   lastAccess, lastEngine>>

\* Get, entry not expired: entry.expiry = time.Now().Add(c.ttl) on the entry
\* that was looked up, return entry.collector, true; getCollector returns it.
\* The entry is still in the map unless another reader has deleted it.
GetExtend(r) ==
    /\ UNCHANGED otherThanCache
    /\ reqPc[r] = "getExtend"
    /\ cache' = IF reqKey[r] \in DOMAIN cache
                THEN [cache EXCEPT ![reqKey[r]].expiry = clock + CacheTtl]
                ELSE cache
    /\ reqPc' = [reqPc EXCEPT ![r] = "idle"]
    /\ lastAccess' = MapPut(lastAccess, reqKey[r], clock)
    /\ lastGet' = [op |-> "Get", key |-> reqKey[r], sawEntry |-> TRUE,
                   sawExpired |-> FALSE, found |-> TRUE, collector |-> reqSeen[r].collector,
                   at |-> reqSeen[r].at, idleSince |-> reqSeen[r].idleSince]
    /\ lastServe' = [op |-> "serve", key |-> reqKey[r], collector |-> reqSeen[r].collector,
                     prev |-> reqSeen[r].prev, live |-> reqSeen[r].live]
    /\ lastEngine' = MapPut(lastEngine, reqKey[r], reqSeen[r].collector)
    /\ reqKey' = [reqKey EXCEPT ![r] = NoKey]
    /\ reqSeen' = [reqSeen EXCEPT ![r] = NoSeen]
    /\ UNCHANGED <<clock, handlerCollector, nextCollector>>

\* getCollector after a miss: NewMonitoringCollector with new delta stores,
\* then CollectorCache.Store under the write lock
ConstructAndStore(r) ==
    /\ UNCHANGED otherThanCache
    /\ reqPc[r] = "construct"
    /\ Readers = {}
    /\ nextCollector <= MaxCollectors
    /\ cache' = MapPut(cache, reqKey[r],
                       [collector |-> nextCollector, expiry |-> clock + CacheTtl])
    /\ nextCollector' = nextCollector + 1
    /\ reqPc' = [reqPc EXCEPT ![r] = "idle"]
    /\ lastAccess' = MapPut(lastAccess, reqKey[r], clock)
    /\ lastServe' = [op |-> "serve", key |-> reqKey[r], collector |-> nextCollector,
                     prev |-> reqSeen[r].prev, live |-> reqSeen[r].live]
    /\ lastEngine' = MapPut(lastEngine, reqKey[r], nextCollector)
    /\ lastGet' = NoCacheOp
    /\ reqKey' = [reqKey EXCEPT ![r] = NoKey]
    /\ reqSeen' = [reqSeen EXCEPT ![r] = NoSeen]
    /\ UNCHANGED <<clock, handlerCollector>>

\* the cleanup goroutine's removeExpired, under the write lock
removeExpired ==
    /\ UNCHANGED otherThanCache
    /\ Readers = {}
    /\ cache' = [k \in {x \in DOMAIN cache : ~(clock > cache[x].expiry)} |-> cache[k]]
    /\ lastGet' = NoCacheOp
    /\ lastServe' = NoCacheOp
    /\ UNCHANGED <<clock, handlerCollector, nextCollector, reqPc, reqKey, reqSeen,
                   lastAccess, lastEngine>>

NextCache ==
    \/ CacheTick
    \/ ServeUnfiltered
    \/ \E r \in Requests, filters \in FilterChoices : GetLookup(r, filters)
    \/ \E r \in Requests : GetDelete(r)
    \/ \E r \in Requests : GetExtend(r)
    \/ \E r \in Requests : ConstructAndStore(r)
    \/ removeExpired

SpecCache == InitCache /\ [][NextCache]_vars

-----------------------------------------------------------------------------
(* Properties of the collector cache (under SpecCache) *)

\* C9: two scrapes for the same project and the same effective prefix set,
\* the second arriving while the cache entry of that key has not expired,
\* are served by the same collector instance (whose delta stores then carry
\* the totals of the first scrape over to the second).
C9_SameEngine ==
    (lastServe.op = "serve" /\ lastServe.prev # 0 /\ lastServe.live) =>
        lastServe.collector = lastServe.prev

\* C10: a Get that finds its entry expired (now > expiry) removes it and
\* returns absent; a Get that finds it unexpired returns its collector and
\* leaves the entry with expiry now + ttl; so a Get less than ttl after the
\* last access of the key finds the entry, and a Get more than ttl after it
\* does not return it.
C10_GetContract ==
    lastGet.op = "Get" =>
        /\ lastGet.sawExpired =>
               /\ ~lastGet.found
               /\ lastGet.key \notin DOMAIN cache
        /\ (lastGet.sawEntry /\ ~lastGet.sawExpired) =>
               /\ lastGet.found
               /\ lastGet.key \in DOMAIN cache
               /\ cache[lastGet.key].collector = lastGet.collector
               /\ cache[lastGet.key].expiry = clock + CacheTtl
        /\ (lastGet.idleSince >= 0 /\ lastGet.at - lastGet.idleSince < CacheTtl) =>
               lastGet.found
        /\ lastGet.found =>
               lastGet.at - lastGet.idleSince <= CacheTtl

\* C29: CollectorCache.Get mutates the cache (deleting an expired entry,
\* extending an entry's expiry) only while it holds the lock exclusively: no
\* two requests are inside Get, each about to write, at the same time.
C29_GetExclusive == Cardinality(Readers) <= 1

\* C35: of the requests for one key that arrive together while the cache has
\* no entry for the key, one constructs the collector and the others use it:
\* getCollector constructs and stores a collector only when the cache holds
\* no unexpired entry for the key.
C35_OneEngine ==
    [][\A r \in Requests :
          (reqPc[r] = "construct" /\ reqPc'[r] = "idle") =>
              (reqKey[r] \notin DOMAIN cache \/ clock > cache[reqKey[r]].expiry)]_vars

-----------------------------------------------------------------------------
(* SpecPrefix: which prefixes and projects a request scrapes *)

MaxListLen == 3

\* the strings that prefixes and collect values are drawn from
PrefixStrings == {<<"a">>, <<"a", "b">>, <<"a", "b", "a">>, <<"b">>, <<"b", "a">>}

\* the lists of at most n strings
ListsUpTo(n) == UNION {[1..k -> PrefixStrings] : k \in 0..n}

\* the filters map of a request: at most two distinct collect values, in
\* either iteration order
FilterMaps ==
    {<<>>} \cup {<<f>> : f \in PrefixStrings}
           \cup {x \in PrefixStrings \X PrefixStrings : x[1] # x[2]}

\* handler.projectIDs
projectIDs == <<"p1", "p2">>

\* the project_ids values a request may carry
ProjectFilterChoices == {{}, {"p1"}, {"p2", "p3"}}

innerHandlerProjects_All(projects, filters) == projects

\* the loop of innerHandler over h.projectIDs: a project is skipped when
\* project filters are given and it is not among them
innerHandlerProjects(projects, filters) ==
    SelectSeq(projects, LAMBDA project : ~(Cardinality(filters) > 0 /\ project \notin filters))

InitPrefix ==
    /\ flagPrefixes \in ListsUpTo(MaxListLen)
    /\ configuredPrefixes = <<>>
    /\ collectFilters = <<>>
    /\ projectFilters = {}
    /\ scrapedPrefixes = <<>>
    /\ scrapedProjects = <<>>
    /\ selectPc = "start"
    /\ DeltaIdle
    /\ ScrapeIdle
    /\ CacheIdle
    /\ DedupIdle
    /\ DescIdle
    /\ LaterIdle

\* main: parsedMetricsPrefixes := parseMetricTypePrefixes(metricsPrefixes),
\* handed to newHandler
ParseFlags ==
    /\ UNCHANGED otherThanPrefix
    /\ selectPc = "start"
    /\ configuredPrefixes' = parseMetricTypePrefixes(flagPrefixes)
    /\ selectPc' = "ready"
    /\ UNCHANGED <<flagPrefixes, collectFilters, projectFilters, scrapedPrefixes,
                   scrapedProjects>>

\* a request: the collectors are built for the selected projects with the
\* filtered prefixes.  A request leaves the handler as it was, so a
\* behaviour serves one request.
ServeRequest(filters, projects) ==
    /\ UNCHANGED otherThanPrefix
    /\ selectPc = "ready"
    /\ collectFilters' = filters
    /\ projectFilters' = projects
    /\ scrapedPrefixes' = filterMetricTypePrefixes(configuredPrefixes, filters)
    /\ scrapedProjects' = innerHandlerProjects(projectIDs, projects)
    /\ selectPc' = "served"
    /\ UNCHANGED <<flagPrefixes, configuredPrefixes>>

NextPrefix ==
    \/ ParseFlags
    \/ \E filters \in FilterMaps, projects \in ProjectFilterChoices :
          ServeRequest(filters, projects)

SpecPrefix == InitPrefix /\ [][NextPrefix]_vars

-----------------------------------------------------------------------------
(* Properties of prefix and project selection (under SpecPrefix) *)

\* s starts with p, character by character
StartsWith(s, p) ==
    /\ Len(p) <= Len(s)
    /\ \A i \in 1..Len(p) : s[i] = p[i]

\* the elements of a list
Elems(list) == {list[i] : i \in 1..Len(list)}

\* a request with collect values has been served
FilteredServed == selectPc = "served" /\ Len(collectFilters) > 0

\* C11 as stated: with collect filters present, a configured prefix P takes
\* part in the scrape iff some collect value C starts with P or P starts
\* with C, and what is scraped for them is the longer of P and C.
C11_EitherDirection ==
    FilteredServed =>
        \A P \in Elems(configuredPrefixes) :
            /\ (\E r \in Elems(scrapedPrefixes) : StartsWith(r, P) \/ StartsWith(P, r))
                   <=> (\E C \in Elems(collectFilters) : StartsWith(C, P) \/ StartsWith(P, C))
            /\ \A C \in Elems(collectFilters) :
                   (StartsWith(C, P) \/ StartsWith(P, C)) =>
                       \E r \in Elems(scrapedPrefixes) :
                           StartsWith(IF Len(C) >= Len(P) THEN C ELSE P, r)

\* C11, amended: with collect filters present, a configured prefix P takes
\* part in the scrape iff some collect value C starts with P; every scraped
\* prefix is a collect value that starts with a configured prefix, and every
\* collect value that starts with P is scraped itself or covered by a
\* scraped collect value that starts with P.
C11_CollectStartsWith ==
    FilteredServed =>
        /\ \A P \in Elems(configuredPrefixes) :
               /\ (\E r \in Elems(scrapedPrefixes) : StartsWith(r, P))
                      <=> (\E C \in Elems(collectFilters) : StartsWith(C, P))
               /\ \A C \in Elems(collectFilters) :
                      StartsWith(C, P) =>
                          \E r \in Elems(scrapedPrefixes) :
                              StartsWith(C, r) /\ StartsWith(r, P)
        /\ \A r \in Elems(scrapedPrefixes) :
               /\ r \in Elems(collectFilters)
               /\ \E P \in Elems(configuredPrefixes) : StartsWith(r, P)

\* a request whose one collect value is a proper prefix of a configured
\* prefix and whose other collect value extends a configured prefix: only
\* the second is scraped
C11_Witness ==
    /\ FilteredServed
    /\ \E C \in Elems(collectFilters), P \in Elems(configuredPrefixes) :
           StartsWith(P, C) /\ C # P
    /\ \E C \in Elems(collectFilters), P \in Elems(configuredPrefixes) :
           StartsWith(C, P) /\ C # P /\ scrapedPrefixes = <<C>>

\* the collect values that start with at least one configured prefix
Admitted ==
    {C \in Elems(collectFilters) : \E P \in Elems(configuredPrefixes) : StartsWith(C, P)}

\* C12: filterMetricTypePrefixes(filters) returns exactly the collect values
\* that start with at least one configured prefix, minus those that start
\* with another returned value; a collect value that is only a shorter
\* prefix of a configured prefix contributes nothing.
C12_FilterResult ==
    FilteredServed =>
        /\ Elems(scrapedPrefixes) =
               {C \in Admitted :
                   ~\E r \in Elems(scrapedPrefixes) : r # C /\ StartsWith(C, r)}
        /\ \A C \in Elems(collectFilters) :
               (~\E P \in Elems(configuredPrefixes) : StartsWith(C, P)) =>
                   C \notin Elems(scrapedPrefixes)

\* two collect values are admitted and one of them starts with the other,
\* which alone is returned
C12_Witness ==
    /\ FilteredServed
    /\ Cardinality(Admitted) = 2
    /\ Len(scrapedPrefixes) = 1
    /\ \A C \in Admitted : StartsWith(C, scrapedPrefixes[1])

\* C13: for any input list parseMetricTypePrefixes returns a sorted,
\* duplicate-free list in which no element is a prefix of another, and every
\* input prefix starts with some returned element; the returned elements
\* are input prefixes.
C13_ParseResult ==
    selectPc # "start" =>
        /\ \A i \in 1..Len(configuredPrefixes), j \in 1..Len(configuredPrefixes) :
               /\ i < j => StrLess(configuredPrefixes[i], configuredPrefixes[j])
               /\ i # j => configuredPrefixes[i] # configuredPrefixes[j]
               /\ i # j => ~StartsWith(configuredPrefixes[i], configuredPrefixes[j])
        /\ \A x \in Elems(flagPrefixes) :
               \E r \in Elems(configuredPrefixes) : StartsWith(x, r)
        /\ Elems(configuredPrefixes) \subseteq Elems(flagPrefixes)

\* an unsorted input of three different prefixes, each one starting with
\* the shortest, which alone is returned
C13_Witness ==
    /\ selectPc # "start"
    /\ Len(flagPrefixes) = 3
    /\ Cardinality(Elems(flagPrefixes)) = 3
    /\ StrLess(flagPrefixes[2], flagPrefixes[1])
    /\ Len(configuredPrefixes) = 1

\* C14: a request without collect and without project_ids values scrapes
\* every configured prefix for every configured project; a request with
\* project_ids scrapes only the projects that are configured and listed.
C14_ProjectSelection ==
    selectPc = "served" =>
        /\ (Len(collectFilters) = 0 /\ projectFilters = {}) =>
               /\ scrapedPrefixes = configuredPrefixes
               /\ scrapedProjects = projectIDs
        /\ projectFilters # {} =>
               Elems(scrapedProjects) = Elems(projectIDs) \cap projectFilters

\* a request that lists a configured and an unknown project scrapes the
\* configured one only
C14_Witness ==
    /\ selectPc = "served"
    /\ projectFilters = {"p2", "p3"}
    /\ scrapedProjects = <<"p2">>
    /\ Len(configuredPrefixes) > 0

\* the metric descriptors of the scoping project "p1" and of a delegated
\* project "p2": the type "ab" is described in both
DescriptorListing ==
    << [Type |-> <<"a", "b">>, project |-> "p1"],
       [Type |-> <<"a", "b", "a">>, project |-> "p1"],
       [Type |-> <<"b", "a">>, project |-> "p1"],
       [Type |-> <<"a", "b">>, project |-> "p2"] >>

\* ListMetricDescriptors with the filter metric.type = starts_with(prefix)
ListMetricDescriptors(metricsTypePrefix) ==
    SelectSeq(DescriptorListing, LAMBDA d : HasPrefix(d.Type, metricsTypePrefix))

uniqueDescriptors_All(descriptors) == Elems(descriptors)

\* collectMetricsForDescriptors: uniqueDescriptors[descriptor.Type] =
\* descriptor over the list; the values of the map, the last descriptor of
\* each type
uniqueDescriptors(descriptors) ==
    {descriptors[i] : i \in {i \in 1..Len(descriptors) :
                                ~\E j \in (i + 1)..Len(descriptors) :
                                    descriptors[j].Type = descriptors[i].Type}}

\* the ListTimeSeries requests of one scrape of a collector: one per prefix
\* task and descriptor of its uniqueDescriptors
TimeSeriesRequests(prefixes) ==
    {x \in (1..Len(prefixes)) \X Elems(DescriptorListing) :
        x[2] \in uniqueDescriptors(ListMetricDescriptors(prefixes[x[1]]))}

\* C40: within one scrape of one collector, time series are requested at
\* most once per metric type: each prefix task requests each distinct
\* descriptor type once, and no metric type is matched by two prefixes of
\* the collector's prefix set.
C40_OncePerType ==
    selectPc = "served" =>
        /\ \A type \in PrefixStrings :
               Cardinality({x \in TimeSeriesRequests(scrapedPrefixes) :
                               x[2].Type = type}) <= 1
        /\ \A type \in PrefixStrings :
               Cardinality({i \in 1..Len(scrapedPrefixes) :
                               HasPrefix(type, scrapedPrefixes[i])}) <= 1

\* a scrape of two prefixes, configured together with a third that one of
\* them covers; one prefix task lists a type twice and requests it once
C40_Witness ==
    /\ selectPc = "served"
    /\ Len(scrapedPrefixes) = 2
    /\ Len(flagPrefixes) = 3
    /\ Cardinality(Elems(flagPrefixes)) = 3
    /\ \E i \in 1..Len(scrapedPrefixes) :
          LET descriptors == ListMetricDescriptors(scrapedPrefixes[i])
          IN  /\ Len(descriptors) > Cardinality(uniqueDescriptors(descriptors))
              /\ \E x \in TimeSeriesRequests(scrapedPrefixes) : x[1] = i
    /\ Cardinality(TimeSeriesRequests(scrapedPrefixes)) = 3

-----------------------------------------------------------------------------
(* collectors/deduplicator.go and hash/fnv.go: the metric deduplicator *)

\* the CheckAndMark calls a behaviour makes, over all its scrapes
MaxChecks == 3

MaxDedupScrapes == 2

\* the goroutines that report metrics through one deduplicator
Tasks == {"t1", "t2"}

\* the arguments of a call: three labels, a label key occurring once, and a
\* timestamp, which is its UnixNano value held as the high and the low 32
\* bits, here within 0xFFFFFFFF nanoseconds of the epoch
BaseArgs ==
    [fqName |-> "m1", labelKeys |-> <<"unit", "zone", "disk">>,
     labelValues |-> <<"1", "a", "x">>, ts |-> [hi |-> 0, lo |-> 1]]

\* the calls of the model: the base call, the same labels in another order,
\* the same keys carrying other values, a timestamp beyond 0xFFFFFFFF
\* nanoseconds, and another metric name
DedupArgs ==
    { BaseArgs,
      [BaseArgs EXCEPT !.labelKeys = <<"disk", "unit", "zone">>,
                       !.labelValues = <<"x", "1", "a">>],
      [BaseArgs EXCEPT !.labelValues = <<"a", "1", "x">>],
      [BaseArgs EXCEPT !.ts = [hi |-> 1, lo |-> 1]],
      [BaseArgs EXCEPT !.fqName = "m2"] }

NoArgs == [fqName |-> "", labelKeys |-> <<>>, labelValues |-> <<>>,
           ts |-> [hi |-> 0, lo |-> 0]]

SeparatorByte == 255

\* A hash value is modelled by the sequence of what was mixed into it since
\* hash.New: bytes of strings, single bytes and 64-bit words.  Two values are
\* equal exactly when these sequences are, that is, FNV-1a is taken to have no
\* collision on the inputs of the model.
hashNew == <<>>

\* hash.Add mixes the bytes of s in one by one: nothing for the empty string,
\* and a string that follows a string continues it
hashAdd(h, s) ==
    IF s = "" THEN h
    ELSE IF h # <<>> /\ "s" \in DOMAIN h[Len(h)]
         THEN [h EXCEPT ![Len(h)] = [s |-> @.s \o s]]
         ELSE Append(h, [s |-> s])

hashAddByte(h, b) == Append(h, [b |-> b])

hashAddUint64(h, val) == Append(h, [u |-> val])

\* indices[i], indices[j] = indices[j], indices[i]
SwapIndices(indices, i, j) == [indices EXCEPT ![i] = indices[j], ![j] = indices[i]]

\* the sort loop as a bug would have it: the indices stay in input order
SortIndices_None(indices, labelKeys, i, j) == indices

\* the two nested loops of hashLabelsTimestamp that order the indices by key,
\* from the position (i, j) on
RECURSIVE SortIndices(_, _, _, _)
SortIndices(indices, labelKeys, i, j) ==
    IF i > Len(indices) THEN indices
    ELSE IF j > Len(indices) THEN SortIndices(indices, labelKeys, i + 1, i + 2)
    ELSE IF KeyRank(labelKeys[indices[i]]) > KeyRank(labelKeys[indices[j]])
         THEN SortIndices(SwapIndices(indices, i, j), labelKeys, i, j + 1)
         ELSE SortIndices(indices, labelKeys, i, j + 1)

\* the loop that adds the key-value pairs in the order of the indices
RECURSIVE AddSortedPairs(_, _, _, _)
AddSortedPairs(h, indices, labelKeys, labelValues) ==
    IF indices = <<>> THEN h
    ELSE LET idx == Head(indices)
             withKey == hashAddByte(hashAdd(h, labelKeys[idx]), SeparatorByte)
             withValue == IF idx <= Len(labelValues)
                          THEN hashAdd(withKey, labelValues[idx])
                          ELSE withKey
         IN  AddSortedPairs(hashAddByte(withValue, SeparatorByte), Tail(indices),
                            labelKeys, labelValues)

\* hashLabelsTimestamp as a bug would have it: the timestamp is left out
hashLabelsTimestamp_NoTimestamp(fqName, labelKeys, labelValues, ts) ==
    LET h == hashAddByte(hashAdd(hashNew, fqName), SeparatorByte)
        indices == SortIndices([i \in 1..Len(labelKeys) |-> i], labelKeys, 1, 2)
    IN  AddSortedPairs(h, indices, labelKeys, labelValues)

hashLabelsTimestamp(fqName, labelKeys, labelValues, ts) ==
    LET h == hashAddByte(hashAdd(hashNew, fqName), SeparatorByte)
        indices == SortIndices([i \in 1..Len(labelKeys) |-> i], labelKeys, 1, 2)
        pairs == AddSortedPairs(h, indices, labelKeys, labelValues)
        tsNano == hashAddUint64(pairs, ts)
    IN  IF ts.hi > 0
        THEN hashAddUint64(tsNano, [hi |-> 0, lo |-> ts.hi])
        ELSE tsNano

\* marking as a bug would have it: the signature is not kept
markSeen_Drop(sentSignatures, signature) == sentSignatures

\* d.sentSignatures[signature] = struct{}{}
markSeen(sentSignatures, signature) == sentSignatures \cup {signature}

\* CheckAndMark as a bug would have it: a duplicate is not counted
CheckAndMarkLocked_NoCount(d, fqName, labelKeys, labelValues, ts) ==
    LET counted == [d EXCEPT !.checksTotal = @ + 1]
        signature == hashLabelsTimestamp(fqName, labelKeys, labelValues, ts)
    IN  IF signature \in counted.sentSignatures
        THEN [d |-> counted, ret |-> TRUE]
        ELSE LET marked == [counted EXCEPT
                               !.sentSignatures = markSeen(@, signature)]
             IN  [d |-> [marked EXCEPT
                            !.uniqueMetricsGauge = Cardinality(marked.sentSignatures)],
                  ret |-> FALSE]

\* the body of CheckAndMark, run with d.mu held: the deduplicator it leaves
\* and the value it returns
CheckAndMarkLocked(d, fqName, labelKeys, labelValues, ts) ==
    LET counted == [d EXCEPT !.checksTotal = @ + 1]
        signature == hashLabelsTimestamp(fqName, labelKeys, labelValues, ts)
    IN  IF signature \in counted.sentSignatures
        THEN [d |-> [counted EXCEPT !.duplicateCount = @ + 1,
                                    !.duplicatesTotal = @ + 1],
              ret |-> TRUE]
        ELSE LET marked == [counted EXCEPT
                               !.sentSignatures = markSeen(@, signature)]
             IN  [d |-> [marked EXCEPT
                            !.uniqueMetricsGauge = Cardinality(marked.sentSignatures)],
                  ret |-> FALSE]

\* the (fqName, label set, timestamp) tuple of a call
TupleOf(args) ==
    <<args.fqName,
      {<<args.labelKeys[i], args.labelValues[i]>> : i \in DOMAIN args.labelKeys},
      args.ts>>

\* a scrape that keeps the deduplicator of the scrape before
BeginScrape_Keep(d) == d

\* the signature set is per scrape (section 4.5 of the specification; the
\* collector code that owns the deduplicator is not among the sources): a
\* scrape starts with a new deduplicator
BeginScrape(d) == NewMetricDeduplicator

InitDedup ==
    /\ dedup = NewMetricDeduplicator
    /\ mu = "free"
    /\ taskPc = [t \in Tasks |-> "idle"]
    /\ taskArgs = [t \in Tasks |-> NoArgs]
    /\ dedupCalls = <<>>
    /\ prevMarked = {}
    /\ dedupScrape = 1
    /\ issued = 0
    /\ DeltaIdle
    /\ ScrapeIdle
    /\ CacheIdle
    /\ PrefixIdle
    /\ DescIdle
    /\ LaterIdle

\* a task calls CheckAndMark and reaches d.mu.Lock() (of the two tasks, t2 is
\* the one that calls while the other is in a call)
Call(t, args) ==
    /\ taskPc[t] = "idle"
    /\ issued < MaxChecks
    /\ t = "t2" => taskPc["t1"] # "idle"
    /\ taskPc' = [taskPc EXCEPT ![t] = "waiting"]
    /\ taskArgs' = [taskArgs EXCEPT ![t] = args]
    /\ issued' = issued + 1
    /\ UNCHANGED <<dedup, mu, dedupCalls, prevMarked, dedupScrape>>
    /\ UNCHANGED otherThanDedup

\* d.mu.Lock() returns
Lock(t) ==
    /\ taskPc[t] = "waiting"
    /\ mu = "free"
    /\ mu' = t
    /\ taskPc' = [taskPc EXCEPT ![t] = "locked"]
    /\ UNCHANGED <<dedup, taskArgs, dedupCalls, prevMarked, dedupScrape, issued>>
    /\ UNCHANGED otherThanDedup

\* the rest of CheckAndMark, up to the deferred d.mu.Unlock() and the return
CheckAndMark(t) ==
    /\ taskPc[t] = "locked"
    /\ mu = t
    /\ LET args == taskArgs[t]
           result == CheckAndMarkLocked(dedup, args.fqName, args.labelKeys,
                                        args.labelValues, args.ts)
           others == {u \in Tasks \ {t} :
                         taskPc[u] = "waiting" /\ TupleOf(taskArgs[u]) = TupleOf(args)}
       IN  /\ dedup' = result.d
           /\ dedupCalls' = Append(dedupCalls,
                                   [args |-> args, ret |-> result.ret, task |-> t,
                                    overlapped |-> others # {}])
    /\ mu' = "free"
    /\ taskPc' = [taskPc EXCEPT ![t] = "idle"]
    /\ taskArgs' = [taskArgs EXCEPT ![t] = NoArgs]
    /\ UNCHANGED <<prevMarked, dedupScrape, issued>>
    /\ UNCHANGED otherThanDedup

\* the scrape ends and the next one begins
NewScrape ==
    /\ \A t \in Tasks : taskPc[t] = "idle"
    /\ dedupCalls # <<>>
    /\ dedupScrape < MaxDedupScrapes
    /\ dedup' = BeginScrape(dedup)
    /\ prevMarked' = {TupleOf(dedupCalls[i].args) : i \in DOMAIN dedupCalls}
    /\ dedupCalls' = <<>>
    /\ dedupScrape' = dedupScrape + 1
    /\ UNCHANGED <<mu, taskPc, taskArgs, issued>>
    /\ UNCHANGED otherThanDedup

NextDedup ==
    \/ \E t \in Tasks, args \in DedupArgs : Call(t, args)
    \/ \E t \in Tasks : Lock(t)
    \/ \E t \in Tasks : CheckAndMark(t)
    \/ NewScrape

SpecDedup == InitDedup /\ [][NextDedup]_vars

-----------------------------------------------------------------------------
(* Properties of the deduplicator *)

\* the calls of the history that returned false
FalseReturns == {j \in DOMAIN dedupCalls : ~dedupCalls[j].ret}

\* the tuples the calls of the history were made with
TuplesCalled == {TupleOf(dedupCalls[j].args) : j \in DOMAIN dedupCalls}

\* C15: on one deduplicator a CheckAndMark call returns false if and only if
\* no earlier call had the same (fqName, label set, timestamp) tuple, so the
\* number of false returns is the number of distinct tuples called, in
\* whatever order the calls came.
C15_FalseIffFirst ==
    /\ \A j \in DOMAIN dedupCalls :
          ~dedupCalls[j].ret <=>
              ~\E i \in 1..(j - 1) :
                  TupleOf(dedupCalls[i].args) = TupleOf(dedupCalls[j].args)
    /\ Cardinality(FalseReturns) = Cardinality(TuplesCalled)

\* three calls answered: a tuple, the same tuple again with its labels in
\* another order (a duplicate), and the tuple at another timestamp (not one)
C15_Witness ==
    /\ Len(dedupCalls) = 3
    /\ TupleOf(dedupCalls[2].args) = TupleOf(dedupCalls[1].args)
    /\ dedupCalls[2].args # dedupCalls[1].args
    /\ dedupCalls[2].ret
    /\ dedupCalls[3].args = [dedupCalls[1].args EXCEPT !.ts = [hi |-> 1, lo |-> 1]]
    /\ dedupCalls[1].args.ts = [hi |-> 0, lo |-> 1]
    /\ ~dedupCalls[3].ret


\* the arguments of a call with its labels reordered: the same permutation
\* applied to labelKeys and to labelValues
Permuted(args, p) ==
    [args EXCEPT !.labelKeys = [i \in DOMAIN args.labelKeys |-> args.labelKeys[p[i]]],
                 !.labelValues = [i \in DOMAIN args.labelValues |-> args.labelValues[p[i]]]]

Reorderings(args) == {Permuted(args, p) : p \in Permutations(DOMAIN args.labelKeys)}

CounterKeyOf(args) ==
    toCounterKey([FqName |-> args.fqName, LabelKeys |-> args.labelKeys,
                  LabelValues |-> args.labelValues])

SignatureOf(args) ==
    hashLabelsTimestamp(args.fqName, args.labelKeys, args.labelValues, args.ts)

\* C16: the counter key of the delta store and the signature of the
\* deduplicator do not depend on the order of the labels: every reordering of
\* a call's labels (keys and values together) has the same key and the same
\* signature, and a call that is a reordering of an earlier call of the same
\* deduplicator returns true.
C16_LabelOrder ==
    /\ \A t \in Tasks :
          taskPc[t] # "idle" =>
              \A other \in Reorderings(taskArgs[t]) :
                  /\ CounterKeyOf(other) = CounterKeyOf(taskArgs[t])
                  /\ SignatureOf(other) = SignatureOf(taskArgs[t])
    /\ \A j \in DOMAIN dedupCalls :
          (\E i \in 1..(j - 1) : dedupCalls[j].args \in Reorderings(dedupCalls[i].args))
              => dedupCalls[j].ret

\* a call was answered true whose labels are those of the first call, which
\* was answered false, in another order
C16_Witness ==
    \E j \in DOMAIN dedupCalls :
        /\ j > 1
        /\ dedupCalls[j].args \in Reorderings(dedupCalls[1].args)
        /\ dedupCalls[j].args.labelKeys # dedupCalls[1].args.labelKeys
        /\ ~dedupCalls[1].ret
        /\ dedupCalls[j].ret


\* the calls of the history made with the tuple of call i that returned false
FalseReturnsFor(i) ==
    {j \in DOMAIN dedupCalls :
        /\ TupleOf(dedupCalls[j].args) = TupleOf(dedupCalls[i].args)
        /\ ~dedupCalls[j].ret}

\* C17: when tasks call CheckAndMark concurrently with the same tuple (one is
\* blocked in Lock while the other runs the body), exactly one of the calls
\* made with that tuple has returned false, however the calls interleave.
C17_OneFalse ==
    \A i \in DOMAIN dedupCalls :
        dedupCalls[i].overlapped => Cardinality(FalseReturnsFor(i)) = 1

\* two tasks were in CheckAndMark with the same tuple at once; the one that
\* got the lock first returned false and the other returned true
C17_Witness ==
    /\ Len(dedupCalls) >= 2
    /\ dedupCalls[1].overlapped
    /\ ~dedupCalls[1].ret
    /\ dedupCalls[2].task # dedupCalls[1].task
    /\ TupleOf(dedupCalls[2].args) = TupleOf(dedupCalls[1].args)
    /\ dedupCalls[2].ret


\* C18: whatever calls a deduplicator has answered, and however they
\* interleaved, checks_total is the number of calls, duplicates_total the
\* number of calls that returned true, and unique_metrics the size of the
\* signature set, so that checks_total = duplicates_total + unique_metrics.
C18_SelfMetrics ==
    /\ dedup.checksTotal = Len(dedupCalls)
    /\ dedup.duplicatesTotal = Cardinality({j \in DOMAIN dedupCalls : dedupCalls[j].ret})
    /\ dedup.uniqueMetricsGauge = Cardinality(dedup.sentSignatures)
    /\ dedup.checksTotal = dedup.duplicatesTotal + dedup.uniqueMetricsGauge

\* three calls from both tasks, one of them a duplicate
C18_Witness ==
    /\ Len(dedupCalls) = 3
    /\ {dedupCalls[j].task : j \in DOMAIN dedupCalls} = Tasks
    /\ dedup.checksTotal = 3
    /\ dedup.duplicatesTotal = 1
    /\ dedup.uniqueMetricsGauge = 2


\* C19: the set of seen signatures belongs to one scrape: a tuple that the
\* scrape before marked is answered false the first time the scrape under way
\* checks it.
C19_PerScrape ==
    \A j \in DOMAIN dedupCalls :
        (/\ TupleOf(dedupCalls[j].args) \in prevMarked
         /\ \A i \in 1..(j - 1) :
               TupleOf(dedupCalls[i].args) # TupleOf(dedupCalls[j].args))
            => ~dedupCalls[j].ret

\* the second scrape checked a tuple that the first scrape had marked
C19_Witness ==
    /\ dedupScrape = 2
    /\ \E j \in DOMAIN dedupCalls :
          /\ TupleOf(dedupCalls[j].args) \in prevMarked
          /\ ~dedupCalls[j].ret

-----------------------------------------------------------------------------
(* collectors/cache.go: the descriptor cache *)

MaxDescNow == 3

\* descriptorCache.ttl, in ticks
DescriptorTtl == 1

\* the Store calls a behaviour makes
MaxStores == 3

\* the goroutines that store descriptor lists
Storers == {"s1", "s2"}

DescPrefixes == {"pa", "pb"}

\* a nil slice: what Lookup returns for a miss, and what a listing without
\* descriptors stores
NilDescriptors == <<>>

\* the descriptor lists a Store can be given
DescriptorLists == {NilDescriptors, <<"d1">>, <<"d1", "d2">>}

NoPending == [op |-> "none"]

\* Lookup as a bug would have it: the expiry is not looked at
descriptorCacheLookup_NoExpiry(entries, prefix, t) ==
    IF prefix \notin DOMAIN entries THEN NilDescriptors ELSE entries[prefix].data

\* descriptorCache.Lookup at time t
descriptorCacheLookup(entries, prefix, t) ==
    IF prefix \notin DOMAIN entries \/ t > entries[prefix].expiry
    THEN NilDescriptors
    ELSE entries[prefix].data

InitDesc ==
    /\ descNow = 0
    /\ descCache = EmptyMap
    /\ descPending = [s \in Storers |-> NoPending]
    /\ descWritten = EmptyMap
    /\ descLookup = [op |-> "none"]
    /\ descStores = 0
    /\ DeltaIdle
    /\ ScrapeIdle
    /\ CacheIdle
    /\ PrefixIdle
    /\ DedupIdle
    /\ LaterIdle

DescTick ==
    /\ descNow < MaxDescNow
    /\ descNow' = descNow + 1
    /\ descLookup' = [op |-> "none"]
    /\ UNCHANGED <<descCache, descPending, descWritten, descStores>>
    /\ UNCHANGED otherThanDesc

\* Lookup, from Lock to the deferred Unlock
Lookup(prefix) ==
    /\ descLookup' = [op |-> "lookup", prefix |-> prefix, at |-> descNow,
                      result |-> descriptorCacheLookup(descCache, prefix, descNow),
                      written |-> MapGet(descWritten, prefix, NoPending)]
    /\ UNCHANGED <<descNow, descCache, descPending, descWritten, descStores>>
    /\ UNCHANGED otherThanDesc

\* Store up to d.lock.Lock(): the entry is built, with its expiry, before the
\* lock is taken (of the two storers, s2 is the one that stores while the
\* other is in a Store)
StoreBegin(s, prefix, data) ==
    /\ descPending[s] = NoPending
    /\ descStores < MaxStores
    /\ s = "s2" => descPending["s1"] # NoPending
    /\ descPending' = [descPending EXCEPT
                          ![s] = [op |-> "store", prefix |-> prefix, data |-> data,
                                  expiry |-> descNow + DescriptorTtl, at |-> descNow]]
    /\ descStores' = descStores + 1
    /\ descLookup' = [op |-> "none"]
    /\ UNCHANGED <<descNow, descCache, descWritten>>
    /\ UNCHANGED otherThanDesc

\* the rest of Store: d.cache[prefix] = &entry under the lock
StoreWrite(s) ==
    /\ descPending[s] # NoPending
    /\ LET entry == descPending[s]
       IN  /\ descCache' = MapPut(descCache, entry.prefix,
                                  [data |-> entry.data, expiry |-> entry.expiry])
           /\ descWritten' = MapPut(descWritten, entry.prefix,
                                    [op |-> "store", data |-> entry.data, at |-> entry.at])
    /\ descPending' = [descPending EXCEPT ![s] = NoPending]
    /\ descLookup' = [op |-> "none"]
    /\ UNCHANGED <<descNow, descStores>>
    /\ UNCHANGED otherThanDesc

NextDesc ==
    \/ DescTick
    \/ \E prefix \in DescPrefixes : Lookup(prefix)
    \/ \E s \in Storers, prefix \in DescPrefixes, data \in DescriptorLists :
          StoreBegin(s, prefix, data)
    \/ \E s \in Storers : StoreWrite(s)

SpecDesc == InitDesc /\ [][NextDesc]_vars

-----------------------------------------------------------------------------
(* Properties of the descriptor cache *)

\* the Lookup that just returned gave the list last written for its prefix if
\* there is one and now is not after its store time plus the ttl, and nil
\* otherwise
LookupAnswer ==
    descLookup.op = "lookup" =>
        IF descLookup.written # NoPending
           /\ descLookup.at <= descLookup.written.at + DescriptorTtl
        THEN descLookup.result = descLookup.written.data
        ELSE descLookup.result = NilDescriptors

\* a storer's write leaves what Lookup returns for every other prefix as it was
StoreKeepsOthers ==
    \A s \in Storers, q \in DescPrefixes :
        (/\ descPending[s] # NoPending
         /\ descPending'[s] = NoPending
         /\ descPending[s].prefix # q)
            => descriptorCacheLookup(descCache', q, descNow')
                   = descriptorCacheLookup(descCache, q, descNow)

\* C20: Lookup(prefix) returns the list most recently stored for the prefix
\* as long as now is not after the time of that store plus the ttl, and
\* returns nil if nothing was stored for the prefix or the entry has expired;
\* a store for one prefix never changes what Lookup returns for another.
C20_LookupContract == [](LookupAnswer) /\ [][StoreKeepsOthers]_vars

\* a Lookup returned the second list stored for its prefix at the very tick
\* the entry expires, with the other prefix stored as well
C20_Witness ==
    /\ descLookup.op = "lookup"
    /\ descLookup.result = <<"d1", "d2">>
    /\ descLookup.at = descLookup.written.at + DescriptorTtl
    /\ descLookup.at > 0
    /\ DOMAIN descWritten = DescPrefixes
    /\ descStores = 3


\* C32: once a Lookup of a prefix has returned, the cache holds no expired
\* entry for that prefix: an entry found expired has been removed.
C32_ExpiredRemoved ==
    (descLookup.op = "lookup" /\ descLookup.prefix \in DOMAIN descCache) =>
        descLookup.at <= descCache[descLookup.prefix].expiry


\* ---------------------------------------------------------------------------
\* SpecNormalize: utils.NormalizeMetricName, which turns a Stackdriver type
\* name into a fragment of a Prometheus name.  A string is the sequence of its
\* characters.
\* ---------------------------------------------------------------------------

MaxNameLen == 3

\* The characters names are drawn from: letters of both cases, a digit, the
\* underscore, a dot and a space.
NameChars == {"a", "b", "A", "B", "1", "_", ".", " "}

\* camelcase.Split's classes: 1 lower, 2 upper, 3 digit, 4 everything else.
CharClass(c) ==
    IF c \in {"a", "b"} THEN 1
    ELSE IF c \in {"A", "B"} THEN 2
    ELSE IF c \in {"1"} THEN 3
    ELSE 4

\* camelcase.Split.  First pass: consecutive characters of one class form a
\* run.  Second pass: an upper-case run followed by a lower-case run hands its
\* last character to that run ("PDFLoader" -> "PDF", "Loader").  The runs that
\* are not empty are the result.
camelcaseSplit(src) ==
    LET RECURSIVE SplitRuns(_, _)
        SplitRuns(rest, runes) ==
            IF rest = <<>> THEN runes
            ELSE LET c == Head(rest)
                     n == Len(runes)
                 IN  IF n > 0 /\ CharClass(runes[n][1]) = CharClass(c)
                     THEN SplitRuns(Tail(rest), [runes EXCEPT ![n] = Append(@, c)])
                     ELSE SplitRuns(Tail(rest), Append(runes, <<c>>))
        RECURSIVE FixUpperLower(_, _)
        FixUpperLower(runes, i) ==
            IF i >= Len(runes) THEN runes
            ELSE IF CharClass(runes[i][1]) = 2 /\ CharClass(runes[i + 1][1]) = 1
                 THEN LET n == Len(runes[i])
                      IN  FixUpperLower([runes EXCEPT
                                           ![i] = SubSeq(@, 1, n - 1),
                                           ![i + 1] = <<runes[i][n]>> \o @], i + 1)
                 ELSE FixUpperLower(runes, i + 1)
    IN  SelectSeq(FixUpperLower(SplitRuns(src, <<>>), 1), LAMBDA w : w # <<>>)

\* safeNameRE.ReplaceAllLiteralString(word, "_") for `[^a-zA-Z0-9_]*$`: the
\* expression matches only at the end of the word, so the one match is the
\* longest suffix of characters outside the class (the empty one when the word
\* ends in a character of the class), and it is replaced by one underscore.
safeNameReplace(word) ==
    LET IsSafeChar(c) == CharClass(c) \in {1, 2, 3} \/ c = "_"
        RECURSIVE UnsafeTail(_)
        UnsafeTail(w) ==
            IF w = <<>> \/ IsSafeChar(w[Len(w)]) THEN 0
            ELSE 1 + UnsafeTail(SubSeq(w, 1, Len(w) - 1))
    IN  SubSeq(word, 1, Len(word) - UnsafeTail(word)) \o <<"_">>

\* strings.Trim(s, cutset); strings.TrimSpace(s) is Trim(s, {" "}) here.
RECURSIVE Trim(_, _)
Trim(s, cutset) ==
    IF s = <<>> THEN s
    ELSE IF s[1] \in cutset THEN Trim(Tail(s), cutset)
    ELSE IF s[Len(s)] \in cutset THEN Trim(SubSeq(s, 1, Len(s) - 1), cutset)
    ELSE s

\* strings.ToLower.
ToLower(s) ==
    [i \in 1..Len(s) |-> CASE s[i] = "A" -> "a" [] s[i] = "B" -> "b" [] OTHER -> s[i]]

NormalizeMetricName(name) ==
    LET lowerWord(word) == Trim(ToLower(Trim(safeNameReplace(word), {"_"})), {" "})
        RECURSIVE Join(_)
        Join(words) ==
            IF words = <<>> THEN <<>>
            ELSE LET rest == Join(Tail(words))
                     w == lowerWord(Head(words))
                 IN  IF w = <<>> THEN rest
                     ELSE IF rest = <<>> THEN w
                     ELSE w \o <<"_">> \o rest
    IN  Join(camelcaseSplit(name))

\* The name is any string of at most MaxNameLen characters.
InitNormalize ==
    LET RECURSIVE NamesUpTo(_)
        NamesUpTo(n) ==
            IF n = 0 THEN {<<>>}
            ELSE LET shorter == NamesUpTo(n - 1)
                 IN  shorter \cup {Append(s, c) : s \in shorter, c \in NameChars}
    IN  /\ metricName \in NamesUpTo(MaxNameLen)
        /\ normalized = <<>>
        /\ DeltaIdle
        /\ ScrapeIdle
        /\ CacheIdle
        /\ PrefixIdle
        /\ DedupIdle
        /\ DescIdle
        /\ TransIdle
        /\ StoreIdle
    /\ ConfigIdle

\* The caller normalizes the name, and then normalizes what it got.
Normalize ==
    /\ Len(normalized) < 2
    /\ normalized' = Append(normalized,
                            NormalizeMetricName(IF normalized = <<>>
                                                THEN metricName
                                                ELSE normalized[Len(normalized)]))
    /\ UNCHANGED <<metricName, otherThanNorm>>

NextNormalize == Normalize

SpecNormalize == InitNormalize /\ [][NextNormalize]_vars

\* C27: NormalizeMetricName is idempotent: normalizing a normalized name
\* returns it unchanged.
C27_Idempotent ==
    Len(normalized) = 2 => normalized[2] = normalized[1]


\* ---------------------------------------------------------------------------
\* SpecTranslate: MonitoringCollector.reportTimeSeriesMetrics turning the time
\* series of one metric descriptor into Prometheus metrics, and
\* timeSeriesMetrics.Complete sending what was held back.
\* ---------------------------------------------------------------------------

MaxResults == 2

\* The bucketizer's input: Count, Mean, the bucket options (explicit bounds,
\* linear, exponential, or none set; a getter of a field that is not set
\* returns its zero value) and the per-bucket counts, whose trailing zeros the
\* API may omit.  Each is a distribution the API can send: the counts sum to
\* Count and the bounds increase.
Distributions ==
    LET unset == [type |-> "none", bounds |-> <<>>, num |-> 0, offset |-> 0,
                  width |-> 0, scale |-> 0, growthFactor |-> 0]
        explicit(bounds) == [unset EXCEPT !.type = "explicit", !.bounds = bounds]
    IN  << << [Count |-> 3, Mean |-> 2, BucketCounts |-> <<1, 0, 2>>,
               BucketOptions |-> explicit(<<1, 5>>)],
              [Count |-> 2, Mean |-> 1, BucketCounts |-> <<2>>,
               BucketOptions |-> explicit(<<1, 5>>)] >>,
           << [Count |-> 2, Mean |-> 4, BucketCounts |-> <<0, 1, 1>>,
               BucketOptions |-> [unset EXCEPT !.type = "linear", !.num = 2,
                                               !.width = 5]],
              [Count |-> 3, Mean |-> 2, BucketCounts |-> <<1, 1, 1>>,
               BucketOptions |-> [unset EXCEPT !.type = "exponential", !.num = 1,
                                               !.scale = 1, !.growthFactor = 2]] >>,
           << [Count |-> 0, Mean |-> 0, BucketCounts |-> <<>>,
               BucketOptions |-> explicit(<<1>>)],
              [Count |-> 1, Mean |-> 1, BucketCounts |-> <<1>>,
               BucketOptions |-> unset] >> >>

\* The metric descriptors: a kind (one of the three of the API, or the unset
\* one), a value type, and the two typed values the points of its series
\* carry (a STRING or MONEY value has none of the fields that are read).
MetricDescriptors ==
    LET zero == [boolValue |-> FALSE, int64Value |-> 0, doubleValue |-> 0,
                 distributionValue |-> Distributions[3][1]]
        kinds == {"GAUGE", "DELTA", "CUMULATIVE"}
    IN  {[kind |-> k, valueType |-> "INT64",
          values |-> <<[zero EXCEPT !.int64Value = 5], [zero EXCEPT !.int64Value = 7]>>] :
            k \in kinds \cup {"METRIC_KIND_UNSPECIFIED"}}
        \cup {[kind |-> k, valueType |-> "DOUBLE",
               values |-> <<[zero EXCEPT !.doubleValue = 5],
                            [zero EXCEPT !.doubleValue = 7]>>] : k \in kinds}
        \cup {[kind |-> k, valueType |-> "BOOL",
               values |-> <<[zero EXCEPT !.boolValue = TRUE], zero>>] : k \in kinds}
        \cup {[kind |-> k, valueType |-> v, values |-> <<zero, zero>>] :
                k \in kinds, v \in {"STRING", "MONEY"}}
        \cup {[kind |-> k, valueType |-> "DISTRIBUTION",
               values |-> <<[zero EXCEPT !.distributionValue = Distributions[i][1]],
                            [zero EXCEPT !.distributionValue = Distributions[i][2]]>>] :
                k \in kinds, i \in DOMAIN Distributions}

\* The time series the API can return for a descriptor.  Labels are listed in
\* the order the range over the map visits them.  id names the series: one
\* result list holds a series once.  Every series has a point, and every point
\* ends after the epoch.
TimeSeriesOf(descriptor) ==
    LET pt(e, i) == [endTime |-> e, value |-> descriptor.values[i]]
        own == [id |-> "A", kind |-> descriptor.kind, valueType |-> descriptor.valueType,
                resourceType |-> <<"a", "B">>, metricType |-> <<"a", ".", "b", "1">>,
                metricLabels |-> << <<"zone", "a">> >>,
                resourceLabels |-> << <<"project_id", "p1">> >>,
                points |-> <<pt(1, 1)>>]
        disk == [own EXCEPT !.id = "B",
                     !.metricLabels = << <<"unit", "x">>, <<"zone", "a">> >>,
                     !.resourceLabels = << <<"zone", "b">>, <<"project_id", "p1">>,
                                           <<"disk", "d">> >>,
                     !.points = <<pt(1, 2)>>]
    IN  { own,
          [own EXCEPT !.points = <<pt(2, 2), pt(1, 1)>>],
          [own EXCEPT !.points = <<pt(1, 1), pt(2, 2)>>],
          disk,
          [own EXCEPT !.id = "C", !.resourceLabels = << <<"project_id", "p2">> >>],
          [disk EXCEPT !.id = "D", !.resourceType = <<"b">>, !.points = <<pt(2, 1)>>] }

\* buildFQName(timeSeries): prometheus.BuildFQName joins the namespace and
\* the two normalized type names with underscores.
seriesFQName(timeSeries) ==
    <<"stackdriver", "_">> \o NormalizeMetricName(timeSeries.resourceType)
        \o <<"_">> \o NormalizeMetricName(timeSeries.metricType)

\* The loop over the points as a bug would have it: the first point is taken.
NewestPoint_First(points, newestEndTime, newest) ==
    IF points = <<>> THEN newest ELSE Head(points)

\* The loop over timeSeries.Points: newestEndTime starts at the epoch for
\* every series, newestTSPoint keeps what it held before the series.
RECURSIVE NewestPoint(_, _, _)
NewestPoint(points, newestEndTime, newest) ==
    IF points = <<>> THEN newest
    ELSE IF Head(points).endTime > newestEndTime
         THEN NewestPoint(Tail(points), Head(points).endTime, Head(points))
         ELSE NewestPoint(Tail(points), newestEndTime, newest)

\* The label loops as a bug would have them: no keyExists test.
SeriesLabels_NoKeyExists(timeSeries, unit) ==
    LET all == timeSeries.metricLabels \o timeSeries.resourceLabels
    IN  [keys |-> <<"unit">> \o [i \in DOMAIN all |-> all[i][1]],
         values |-> <<unit>> \o [i \in DOMAIN all |-> all[i][2]]]

\* labelKeys and labelValues of a series: "unit" first, then the metric
\* labels, then the resource labels, a key that is already there (keyExists)
\* being skipped.
SeriesLabels(timeSeries, unit) ==
    LET RECURSIVE Add(_, _)
        Add(l, labels) ==
            IF labels = <<>> THEN l
            ELSE IF \E i \in DOMAIN l.keys : l.keys[i] = Head(labels)[1]
                 THEN Add(l, Tail(labels))
                 ELSE Add([keys |-> Append(l.keys, Head(labels)[1]),
                           values |-> Append(l.values, Head(labels)[2])], Tail(labels))
    IN  Add(Add([keys |-> <<"unit">>, values |-> <<unit>>], timeSeries.metricLabels),
            timeSeries.resourceLabels)

\* The switch on MetricKind as a bug would have it: a DELTA is always a gauge.
MetricValueType_DeltaGauge(kind, aggregateDeltas) ==
    CASE kind = "GAUGE" -> "Gauge"
      [] kind = "DELTA" -> "Gauge"
      [] kind = "CUMULATIVE" -> "Counter"
      [] OTHER -> "none"

\* The switch on timeSeries.MetricKind; "none" is the default branch, which
\* skips the series.
MetricValueType(kind, aggregateDeltas) ==
    CASE kind = "GAUGE" -> "Gauge"
      [] kind = "DELTA" -> IF aggregateDeltas THEN "Counter" ELSE "Gauge"
      [] kind = "CUMULATIVE" -> "Counter"
      [] OTHER -> "none"

\* The bucket keys generateHistogramBuckets computes: the explicit bounds, or
\* offset + i * width, or scale * growthFactor^i for i in 0..num, and the last
\* key set to +Inf.
BucketKeys(opts) ==
    LET RECURSIVE Pow(_, _)
        Pow(g, i) == IF i = 0 THEN 1 ELSE g * Pow(g, i - 1)
    IN  CASE opts.type = "explicit" -> Append(opts.bounds, InfBound)
          [] opts.type = "linear" ->
                Append([i \in 1..(opts.num + 1) |-> opts.offset + (i - 1) * opts.width],
                       InfBound)
          [] opts.type = "exponential" ->
                Append([i \in 1..(opts.num + 1) |->
                           opts.scale * Pow(opts.growthFactor, i - 1)], InfBound)

\* generateHistogramBuckets as a bug would have it: the counts are stored as
\* they come, not accumulated.
generateHistogramBuckets_PerBucket(dist) ==
    IF dist.BucketOptions.type = "none" THEN [err |-> TRUE]
    ELSE LET bucketKeys == BucketKeys(dist.BucketOptions)
         IN  [err |-> FALSE,
              buckets |-> [b \in {bucketKeys[i] : i \in DOMAIN bucketKeys} |->
                             LET i == CHOOSE j \in DOMAIN bucketKeys : bucketKeys[j] = b
                             IN  IF Len(dist.BucketCounts) >= i
                                 THEN dist.BucketCounts[i] ELSE 0]]

\* generateHistogramBuckets: an error for unknown bucket options, else the
\* map from each key to the sum of the counts up to it, the keys beyond the
\* counts received getting the last sum.
generateHistogramBuckets(dist) ==
    IF dist.BucketOptions.type = "none" THEN [err |-> TRUE]
    ELSE LET bucketKeys == BucketKeys(dist.BucketOptions)
             RECURSIVE Fill(_, _, _)
             Fill(i, last, buckets) ==
                 IF i > Len(bucketKeys) THEN buckets
                 ELSE IF Len(dist.BucketCounts) >= i
                      THEN Fill(i + 1, dist.BucketCounts[i] + last,
                                MapPut(buckets, bucketKeys[i], dist.BucketCounts[i] + last))
                      ELSE Fill(i + 1, last, MapPut(buckets, bucketKeys[i], last))
         IN  [err |-> FALSE, buckets |-> Fill(1, 0, EmptyMap)]


\* The ConstMetric or HistogramMetric the Collect functions build from the
\* newest point of a series, collected at time t (the value switch of
\* reportTimeSeriesMetrics included: a BOOL becomes 0 or 1).
CollectedMetric(timeSeries, newest, aggregateDeltas, t) ==
    LET labels == SeriesLabels(timeSeries, "By")
    IN  IF timeSeries.valueType = "DISTRIBUTION"
        THEN [FqName |-> seriesFQName(timeSeries), LabelKeys |-> labels.keys,
              LabelValues |-> labels.values,
              Sum |-> newest.value.distributionValue.Mean
                          * newest.value.distributionValue.Count,
              Count |-> newest.value.distributionValue.Count,
              Buckets |-> generateHistogramBuckets(newest.value.distributionValue).buckets,
              ReportTime |-> newest.endTime, CollectionTime |-> t]
        ELSE [FqName |-> seriesFQName(timeSeries), LabelKeys |-> labels.keys,
              LabelValues |-> labels.values,
              ValueType |-> MetricValueType(timeSeries.kind, aggregateDeltas),
              Value |-> CASE timeSeries.valueType = "BOOL" ->
                                 (IF newest.value.boolValue THEN 1 ELSE 0)
                          [] timeSeries.valueType = "INT64" -> newest.value.int64Value
                          [] timeSeries.valueType = "DOUBLE" -> newest.value.doubleValue,
              ReportTime |-> newest.endTime, CollectionTime |-> t]

\* completeConstMetrics / completeHistogramMetrics over the map from fqName
\* to the records held under it.
completeByFqName(vs) ==
    UNION {completeMetrics({e \in vs : e.m.FqName = f}) : f \in {e.m.FqName : e \in vs}}

\* A collector reports the series of one descriptor at time 2 of a scrape
\* begun then.  With aggregated deltas its stores are empty or hold what a
\* scrape at time 1 left: the first point of series A.
InitTranslate ==
    /\ trDescriptor \in MetricDescriptors
    /\ trFlags \in [fillMissingLabels : BOOLEAN, aggregateDeltas : BOOLEAN,
                    dropDelegatedProjects : BOOLEAN]
    /\ results = <<>>
    /\ newestTSPoint = [endTime |-> 0, value |-> trDescriptor.values[2]]
    /\ constMetrics = {}
    /\ histogramMetrics = {}
    /\ trSink = {}
    /\ trPc = "loop"
    /\ now = 2
    /\ begun = 2
    /\ LET first == CHOOSE ts \in TimeSeriesOf(trDescriptor) :
                        ts.id = "A" /\ Len(ts.points) = 1
           earlier == CollectedMetric(first, first.points[1], TRUE, 1)
           aggregated == trDescriptor.kind = "DELTA" /\ trFlags.aggregateDeltas
       IN  /\ counterStore \in {EmptyMap} \cup
                  (IF aggregated /\ trDescriptor.valueType \in {"BOOL", "INT64", "DOUBLE"}
                   THEN {CounterIncrement(EmptyMap, "d1", earlier)} ELSE {})
           /\ histogramStore \in {EmptyMap} \cup
                  (IF aggregated /\ trDescriptor.valueType = "DISTRIBUTION"
                   THEN {HistogramIncrement(EmptyMap, "d1", earlier)} ELSE {})
    /\ served = {}
    /\ scrapeActive = FALSE
    /\ running = {}
    /\ emitted = Nothing
    /\ listed = Nothing
    /\ lastOp = NoOp
    /\ track = EmptyMap
    /\ continued = {}
    /\ samples = 0
    /\ lastEmitted = EmptyMap
    /\ ScrapeIdle
    /\ CacheIdle
    /\ PrefixIdle
    /\ DedupIdle
    /\ DescIdle
    /\ NormIdle
    /\ StoreIdle
    /\ ConfigIdle

ToDeltaStore_Never(metricKind, aggregateDeltas) == FALSE

\* CollectNewConstMetric and CollectNewConstHistogram: a DELTA sample goes to
\* the delta store, and the function returns, when aggregateDeltas is on.
ToDeltaStore(metricKind, aggregateDeltas) == metricKind = "DELTA" /\ aggregateDeltas

\* One pass of the loop of reportTimeSeriesMetrics over the result list: the
\* newest point, the labels, the delegated-project test, the two switches,
\* and CollectNewConstMetric or CollectNewConstHistogram, which send the
\* metric to the delta store, hold it back for label filling, or emit it.
ReportSeries(timeSeries) ==
    /\ trPc = "loop"
    /\ Len(results) < MaxResults
    /\ \A i \in DOMAIN results : results[i].id # timeSeries.id
    /\ LET newest == NewestPoint(timeSeries.points, 0, newestTSPoint)
           labels == SeriesLabels(timeSeries, "By")
           dropDelegatedProject ==
               /\ trFlags.dropDelegatedProjects
               /\ \E idx \in DOMAIN labels.keys :
                     labels.keys[idx] = "project_id" /\ labels.values[idx] # "p1"
           metricValueType == MetricValueType(timeSeries.kind, trFlags.aggregateDeltas)
           isDistribution == timeSeries.valueType = "DISTRIBUTION"
           collected ==
               /\ ~dropDelegatedProject
               /\ metricValueType # "none"
               /\ timeSeries.valueType \in {"BOOL", "INT64", "DOUBLE", "DISTRIBUTION"}
               /\ isDistribution =>
                     ~generateHistogramBuckets(newest.value.distributionValue).err
           v == CollectedMetric(timeSeries, newest, trFlags.aggregateDeltas, now)
           sent == [series |-> Len(results) + 1,
                    type |-> IF isDistribution THEN "Histogram" ELSE metricValueType,
                    m |-> v]
           toStore == collected /\ ToDeltaStore(timeSeries.kind, trFlags.aggregateDeltas)
           toFill == collected /\ ~toStore /\ trFlags.fillMissingLabels
       IN  /\ newestTSPoint' = newest
           /\ results' = Append(results, timeSeries)
           /\ counterStore' = IF toStore /\ ~isDistribution
                              THEN CounterIncrement(counterStore, "d1", v)
                              ELSE counterStore
           /\ histogramStore' = IF toStore /\ isDistribution
                                THEN HistogramIncrement(histogramStore, "d1", v)
                                ELSE histogramStore
           /\ constMetrics' = IF toFill /\ ~isDistribution
                              THEN constMetrics \cup {sent} ELSE constMetrics
           /\ histogramMetrics' = IF toFill /\ isDistribution
                                  THEN histogramMetrics \cup {sent} ELSE histogramMetrics
           /\ trSink' = IF collected /\ ~toStore /\ ~toFill
                        THEN trSink \cup {sent} ELSE trSink
    /\ UNCHANGED <<trDescriptor, trFlags, trPc>>
    /\ UNCHANGED <<now, served, scrapeActive, begun, running, emitted, listed, lastOp,
                   track, continued, samples,
                   lastEmitted>>
    /\ UNCHANGED <<scrapeVars, cacheVars, prefixVars, dedupVars, descVars, normVars, storeVars, winVars, handlerVars>>

\* timeSeriesMetrics.Complete(begun) at the end of reportTimeSeriesMetrics:
\* the entries of the two delta stores are listed, stamped and sent (filled
\* first when fillMissingLabels is on), then the records held back are.
ReportComplete ==
    /\ trPc = "loop"
    /\ LET fromStore(l, histogram) ==
               {[series |-> 0,
                 type |-> IF histogram THEN "Histogram" ELSE e.m.ValueType,
                 m |-> StampStale(e.m, begun, now)] : e \in l}
           completeDelta(vs) ==
               IF trFlags.fillMissingLabels THEN completeByFqName(vs) ELSE vs
       IN  /\ trSink' = trSink
                 \cup completeDelta(fromStore(ListMetrics(counterStore, "d1", now), FALSE))
                 \cup completeDelta(fromStore(ListMetrics(histogramStore, "d1", now), TRUE))
                 \cup completeByFqName(constMetrics)
                 \cup completeByFqName(histogramMetrics)
           /\ counterStore' = StoreAfterList(counterStore, "d1", now)
           /\ histogramStore' = StoreAfterList(histogramStore, "d1", now)
    /\ trPc' = "done"
    /\ UNCHANGED <<trDescriptor, trFlags, results, newestTSPoint, constMetrics,
                   histogramMetrics>>
    /\ UNCHANGED <<now, served, scrapeActive, begun, running, emitted, listed, lastOp,
                   track, continued, samples,
                   lastEmitted>>
    /\ UNCHANGED <<scrapeVars, cacheVars, prefixVars, dedupVars, descVars, normVars, storeVars, winVars, handlerVars>>

NextTranslate ==
    \/ \E timeSeries \in TimeSeriesOf(trDescriptor) : ReportSeries(timeSeries)
    \/ ReportComplete

SpecTranslate == InitTranslate /\ [][NextTranslate]_vars


\* The set of label keys of a metric.
KeySet(m) == {m.LabelKeys[i] : i \in DOMAIN m.LabelKeys}

\* Metric m is what was collected as original, with pairs of a new key and
\* the empty value appended and nothing else changed.
FilledFrom(m, original) ==
    /\ Len(m.LabelKeys) = Len(m.LabelValues)
    /\ Len(m.LabelKeys) >= Len(original.LabelKeys)
    /\ \A i \in DOMAIN m.LabelKeys :
          IF i <= Len(original.LabelKeys)
          THEN /\ m.LabelKeys[i] = original.LabelKeys[i]
               /\ m.LabelValues[i] = original.LabelValues[i]
          ELSE /\ m.LabelValues[i] = ""
               /\ \A j \in 1..(i - 1) : m.LabelKeys[j] # m.LabelKeys[i]
    /\ [m EXCEPT !.LabelKeys = original.LabelKeys,
                 !.LabelValues = original.LabelValues] = original

\* What the series or store entry behind a sent metric was collected as.
OriginalsOf(e) ==
    IF e.series > 0
    THEN {CollectedMetric(results[e.series],
                          NewestPoint(results[e.series].points, 0, newestTSPoint),
                          trFlags.aggregateDeltas, now)}
    ELSE {StampStale(counterStore["d1"][k], begun, now) :
            k \in DOMAIN MapGet(counterStore, "d1", EmptyMap)}
         \cup {StampStale(histogramStore["d1"][k], begun, now) :
                 k \in DOMAIN MapGet(histogramStore, "d1", EmptyMap)}

\* C22: with label filling on, once Complete has run all metrics sent under
\* one fqName have the same set of label keys, and each is its collected
\* metric with the keys it lacked appended, each with the empty value at the
\* same position, its own pairs unchanged.
C22_FilledLabels ==
    (trPc = "done" /\ trFlags.fillMissingLabels) =>
        /\ \A e1, e2 \in trSink :
              e1.m.FqName = e2.m.FqName => KeySet(e1.m) = KeySet(e2.m)
        /\ \A e \in trSink : \E original \in OriginalsOf(e) : FilledFrom(e.m, original)

\* Complete has sent two metrics of one fqName, one of which had a key
\* appended with the empty value.
C22_Witness ==
    /\ trPc = "done"
    /\ trFlags.fillMissingLabels
    /\ \E e1, e2 \in trSink :
          /\ e1.series > 0 /\ e2.series > 0 /\ e1.series # e2.series
          /\ e1.m.FqName = e2.m.FqName
          /\ Len(e1.m.LabelKeys) > Len(SeriesLabels(results[e1.series], "By").keys)
          /\ e1.m.LabelValues[Len(e1.m.LabelValues)] = ""
          /\ Len(e2.m.LabelKeys) = Len(SeriesLabels(results[e2.series], "By").keys)


\* The value the earliest source of a label key gives it: the descriptor's
\* unit for "unit", else the metric label, else the resource label.
EarliestValue(timeSeries, key) ==
    LET from(labels) == {labels[i][2] : i \in {j \in DOMAIN labels : labels[j][1] = key}}
    IN  IF key = "unit" THEN {"By"}
        ELSE IF from(timeSeries.metricLabels) # {} THEN from(timeSeries.metricLabels)
        ELSE from(timeSeries.resourceLabels)

\* C23: the labels of a metric sent for a series start with "unit" and the
\* descriptor's unit, hold no key twice and as many values as keys, and give
\* every key of the unit, the metric labels and the resource labels the value
\* of the earliest of these sources that has it.
C23_Labels ==
    \A e \in trSink :
        e.series > 0 =>
            LET timeSeries == results[e.series]
                sourceKeys == {"unit"}
                    \cup {timeSeries.metricLabels[i][1] : i \in DOMAIN timeSeries.metricLabels}
                    \cup {timeSeries.resourceLabels[i][1] :
                            i \in DOMAIN timeSeries.resourceLabels}
            IN  /\ e.m.LabelKeys[1] = "unit"
                /\ e.m.LabelValues[1] = "By"
                /\ Len(e.m.LabelKeys) = Len(e.m.LabelValues)
                /\ \A i, j \in DOMAIN e.m.LabelKeys :
                      e.m.LabelKeys[i] = e.m.LabelKeys[j] => i = j
                /\ \A key \in sourceKeys :
                      \E i \in DOMAIN e.m.LabelKeys :
                          /\ e.m.LabelKeys[i] = key
                          /\ {e.m.LabelValues[i]} = EarliestValue(timeSeries, key)

\* A metric has been sent for a series whose metric labels hold "unit" and
\* whose resource labels repeat the metric label "zone": it carries the
\* descriptor's unit and the metric label's zone.
C23_Witness ==
    \E e \in trSink :
        /\ e.series > 0
        /\ results[e.series].id = "B"
        /\ ~trFlags.fillMissingLabels
        /\ e.m.LabelKeys = <<"unit", "zone", "project_id", "disk">>
        /\ e.m.LabelValues = <<"By", "a", "p1", "d">>


\* The point of a series with the latest endTime.
LatestPoint(timeSeries) ==
    CHOOSE p \in {timeSeries.points[i] : i \in DOMAIN timeSeries.points} :
        \A i \in DOMAIN timeSeries.points : timeSeries.points[i].endTime <= p.endTime

\* The series is one that reportTimeSeriesMetrics hands to a Collect function.
Collected(timeSeries) ==
    /\ timeSeries.kind \in {"GAUGE", "DELTA", "CUMULATIVE"}
    /\ timeSeries.valueType \in {"BOOL", "INT64", "DOUBLE", "DISTRIBUTION"}
    /\ timeSeries.valueType = "DISTRIBUTION" =>
          LatestPoint(timeSeries).value.distributionValue.BucketOptions.type # "none"
    /\ ~(/\ trFlags.dropDelegatedProjects
         /\ \E i \in DOMAIN timeSeries.resourceLabels :
               /\ timeSeries.resourceLabels[i][1] = "project_id"
               /\ timeSeries.resourceLabels[i][2] # "p1")

\* Metric m has the timestamp and the value of point p.
SampleOf(m, timeSeries, p) ==
    /\ m.ReportTime = p.endTime
    /\ CASE timeSeries.valueType = "BOOL" -> m.Value = (IF p.value.boolValue THEN 1 ELSE 0)
         [] timeSeries.valueType = "INT64" -> m.Value = p.value.int64Value
         [] timeSeries.valueType = "DOUBLE" -> m.Value = p.value.doubleValue
         [] timeSeries.valueType = "DISTRIBUTION" ->
               /\ m.Count = p.value.distributionValue.Count
               /\ m.Sum = p.value.distributionValue.Mean * p.value.distributionValue.Count
               /\ m.Buckets[InfBound] = p.value.distributionValue.Count

\* The series of the result list takes the delta-store path.
Aggregated == trDescriptor.kind = "DELTA" /\ trFlags.aggregateDeltas

\* The metrics sent for the i-th series of the result list: those tagged with
\* it, and those sent from a delta store under its labels.
SentFor(i) ==
    {e \in trSink :
        \/ e.series = i
        \/ /\ e.series = 0
           /\ LET labels == SeriesLabels(results[i], "By")
              IN  \E original \in OriginalsOf(e) :
                      /\ FilledFrom(e.m, original)
                      /\ original.FqName = seriesFQName(results[i])
                      /\ original.LabelKeys = labels.keys
                      /\ original.LabelValues = labels.values}

\* C24 as stated: once reportTimeSeriesMetrics is done, every collected series
\* has one metric sent, with the value and the end time of its latest point.
C24_AsStated ==
    trPc = "done" =>
        \A i \in DOMAIN results :
            Collected(results[i]) =>
                /\ SentFor(i) # {}
                /\ \A e \in SentFor(i) :
                      SampleOf(e.m, results[i], LatestPoint(results[i]))

\* C24: a series that does not take the delta-store path is sent once, with
\* the value and the end time of its latest point, whatever the order of its
\* points; a DELTA series under aggregation is sent from the delta store,
\* with the value accumulated there and the report time kept there, or the
\* time stamped from the scrape when it brought no newer point.
C24_NewestPoint ==
    /\ \A e \in trSink \cup constMetrics \cup histogramMetrics :
          e.series > 0 => SampleOf(e.m, results[e.series], LatestPoint(results[e.series]))
    /\ (trPc = "done" /\ ~Aggregated) =>
          \A i \in DOMAIN results :
              Collected(results[i]) => Cardinality(SentFor(i)) = 1
    /\ (trPc = "done" /\ Aggregated) =>
          \A i \in DOMAIN results :
              Collected(results[i]) =>
                  /\ Cardinality(SentFor(i)) = 1
                  /\ \A e \in SentFor(i) :
                        /\ e.series = 0
                        /\ \E original \in OriginalsOf(e) :
                              /\ FilledFrom(e.m, original)
                              /\ original.ReportTime >= LatestPoint(results[i]).endTime
                                   \/ original.CollectionTime < begun

\* A series whose latest point is its second one has been sent with that
\* point's end time 2 and value 7.
C24_Witness ==
    /\ trPc = "done"
    /\ ~Aggregated
    /\ \E i \in DOMAIN results :
          /\ results[i].valueType = "INT64"
          /\ results[i].points[1].endTime = 1
          /\ Len(results[i].points) = 2
          /\ \E e \in trSink :
                e.series = i /\ e.m.ReportTime = 2 /\ e.m.Value = 7


\* The Prometheus type the mapping table gives a series.
TableType(timeSeries) ==
    IF timeSeries.valueType = "DISTRIBUTION" THEN "Histogram"
    ELSE CASE timeSeries.kind = "GAUGE" -> "Gauge"
           [] timeSeries.kind = "CUMULATIVE" -> "Counter"
           [] timeSeries.kind = "DELTA" ->
                 IF trFlags.aggregateDeltas THEN "Counter" ELSE "Gauge"

\* C25: once reportTimeSeriesMetrics is done, a BOOL, INT64 or DOUBLE series
\* has been sent as a Gauge when its kind is GAUGE, as a Counter when it is
\* CUMULATIVE, and for DELTA as a Gauge without aggregation and as a Counter
\* with it; a DISTRIBUTION series of any of the three kinds has been sent as
\* a Histogram; nothing is ever sent for a STRING or MONEY series.
C25_KindMapping ==
    /\ trPc = "done" =>
          \A i \in DOMAIN results :
              Collected(results[i]) =>
                  /\ SentFor(i) # {}
                  /\ \A e \in SentFor(i) : e.type = TableType(results[i])
    /\ trDescriptor.valueType \in {"STRING", "MONEY"} =>
          trSink = {} /\ constMetrics = {} /\ histogramMetrics = {}
             /\ counterStore = EmptyMap /\ histogramStore = EmptyMap

\* An aggregated DELTA series of a numeric type has been sent as a Counter.
C25_Witness ==
    /\ trPc = "done"
    /\ Aggregated
    /\ trDescriptor.valueType = "DOUBLE"
    /\ results # <<>>
    /\ \E e \in SentFor(1) : e.type = "Counter"


\* The number of upper bounds of a bucket map that are at most bound.
BoundRank(buckets, bound) == Cardinality({b \in DOMAIN buckets : b <= bound})

RECURSIVE SumOfCounts(_, _)
SumOfCounts(counts, n) == IF n = 0 THEN 0 ELSE counts[n] + SumOfCounts(counts, n - 1)

\* C26: the buckets of a histogram built from a valid distribution are
\* cumulative: the count at a bound is at least the count at every lower
\* bound, it is the sum of the bucketCounts up to that bound, a bound past the
\* bucketCounts received has the last such sum, and the count at +Inf is the
\* distribution's count.
C26_Cumulative ==
    \A e \in trSink \cup histogramMetrics :
        (e.series > 0 /\ e.type = "Histogram") =>
            LET dist == LatestPoint(results[e.series]).value.distributionValue
                buckets == e.m.Buckets
                received == Len(dist.BucketCounts)
            IN  /\ \A b1, b2 \in DOMAIN buckets : b1 <= b2 => buckets[b1] <= buckets[b2]
                /\ \A b \in DOMAIN buckets :
                      buckets[b] = IF BoundRank(buckets, b) <= received
                                   THEN SumOfCounts(dist.BucketCounts, BoundRank(buckets, b))
                                   ELSE SumOfCounts(dist.BucketCounts, received)
                /\ InfBound \in DOMAIN buckets
                /\ buckets[InfBound] = dist.Count
                /\ Cardinality(DOMAIN buckets) =
                      IF dist.BucketOptions.type = "explicit"
                      THEN Len(dist.BucketOptions.bounds) + 1
                      ELSE dist.BucketOptions.num + 2

\* Two histograms have been sent: one of three counts over the bounds 1, 5
\* and +Inf, and one of a single count over the same bounds, whose bounds 5
\* and +Inf repeat the count at 1.
C26_Witness ==
    \E e1, e2 \in trSink :
        /\ e1.series > 0 /\ e2.series > 0
        /\ e1.type = "Histogram" /\ e2.type = "Histogram"
        /\ e1.m.Buckets = (1 :> 1 @@ 5 :> 1 @@ InfBound :> 3)
        /\ e2.m.Buckets = (1 :> 2 @@ 5 :> 2 @@ InfBound :> 2)


\* C39: every histogram in the histogram store is cumulative: the count at a
\* bound is at least the count at every lower bound, and the count at +Inf is
\* the histogram's count.
C39_StoredCumulative ==
    \A k \in DOMAIN MapGet(histogramStore, "d1", EmptyMap) :
        LET h == histogramStore["d1"][k]
        IN  /\ \A b1, b2 \in DOMAIN h.Buckets : b1 <= b2 => h.Buckets[b1] <= h.Buckets[b2]
            /\ InfBound \in DOMAIN h.Buckets
            /\ h.Buckets[InfBound] = h.Count

\* ---------------------------------------------------------------------------
\* SpecStore: two tasks calling InMemoryCounterStore.Increment and
\* ListMetrics for one descriptor name at the same time, a step at a time.
\* ---------------------------------------------------------------------------

MaxStoreCalls == 3

\* entry.mutex.Lock() as a bug would have it: it never waits.
TryLock_NoWait(mutex) == TRUE

\* entry.mutex.Lock() returns only when no task holds the mutex.
TryLock(mutex) == mutex = "free"

\* Increment's branches as a bug would have them: a sample that is not newer
\* replaces the entry too.
IncrementStored_AcceptOlder(existing, currentValue) ==
    IF existing = NilMetric THEN currentValue
    ELSE IF existing.ReportTime < currentValue.ReportTime
    THEN [currentValue EXCEPT !.Value = currentValue.Value + existing.Value]
    ELSE currentValue

\* What Increment writes to entry.Collected[key] having read existing: the
\* new sample, the sample with the existing value added when it is newer, or
\* nothing (nil here) when it is not.
IncrementStored(existing, currentValue) ==
    IF existing = NilMetric THEN currentValue
    ELSE IF existing.ReportTime < currentValue.ReportTime
    THEN [currentValue EXCEPT !.Value = currentValue.Value + existing.Value]
    ELSE NilMetric

\* The samples handed to Increment: a series and the report time of its
\* point, two report times for one series and one for another.
StoreSamples == {<<"s1", 1>>, <<"s1", 2>>, <<"s2", 1>>}

\* entry.Collected of the descriptor, empty when the store has no entry.
EntryCollected(store) == MapGet(store, "d1", EmptyMap)

InitStore ==
    /\ now = 0
    /\ counterStore = EmptyMap
    /\ StoreIdle
    /\ served = {}
    /\ scrapeActive = FALSE
    /\ begun = 0
    /\ running = {}
    /\ histogramStore = EmptyMap
    /\ emitted = Nothing
    /\ listed = Nothing
    /\ lastOp = NoOp
    /\ track = EmptyMap
    /\ continued = {}
    /\ samples = 0
    /\ lastEmitted = EmptyMap
    /\ ScrapeIdle
    /\ CacheIdle
    /\ PrefixIdle
    /\ DedupIdle
    /\ DescIdle
    /\ NormIdle
    /\ TransIdle
    /\ ConfigIdle

\* The delta variables other than the clock and the counter store, and the
\* other parts, stay as they are.
StoreFrame ==
    /\ UNCHANGED <<served, scrapeActive, begun, running, histogramStore, emitted, listed,
                   lastOp, track, continued, samples,
                   lastEmitted>>
    /\ UNCHANGED <<scrapeVars, cacheVars, prefixVars, dedupVars, descVars, normVars, transVars, winVars, handlerVars>>

\* Time passes.  The clock is read only where a call starts, so the ticks
\* that matter are those before a call some task can still make.
StoreTick ==
    /\ now < MaxTime
    /\ storeCalls < MaxStoreCalls
    /\ \E t \in DOMAIN storeTask : storeTask[t].pc = "idle"
    /\ now' = now + 1
    /\ UNCHANGED <<counterStore, storeVars>>
    /\ StoreFrame

\* Increment up to the mutex: s.store.LoadOrStore(name, new entry) and
\* toCounterKey.  The sample was collected now.
IncrementCall(t, s, reportTime) ==
    /\ storeTask[t].pc = "idle"
    /\ storeCalls < MaxStoreCalls
    /\ LET currentValue == NewConstMetric("d1", s, reportTime, 1, now)
       IN  storeTask' = [storeTask EXCEPT ![t] =
               [NoCall EXCEPT !.pc = "incLock", !.op = "increment",
                              !.key = toCounterKey(currentValue),
                              !.currentValue = currentValue,
                              !.overlap = \E o \in DOMAIN storeTask :
                                              o # t /\ storeTask[o].pc # "idle"]]
    /\ counterStore' = IF "d1" \in DOMAIN counterStore THEN counterStore
                       ELSE MapPut(counterStore, "d1", EmptyMap)
    /\ storeCalls' = storeCalls + 1
    /\ UNCHANGED <<now, entryMutex, linearStore, lastStored>>
    /\ StoreFrame

\* entry.mutex.Lock() and existing := entry.Collected[key].  The call takes
\* its place in the order of calls here.
IncrementLock(t) ==
    /\ storeTask[t].pc = "incLock"
    /\ TryLock(entryMutex)
    /\ entryMutex' = t
    /\ storeTask' = [storeTask EXCEPT ![t].pc = "incStore",
                                      ![t].existing = MapGet(EntryCollected(counterStore),
                                                             storeTask[t].key, NilMetric)]
    /\ linearStore' = CounterIncrement(linearStore, "d1", storeTask[t].currentValue)
    /\ UNCHANGED <<now, counterStore, lastStored, storeCalls>>
    /\ StoreFrame

\* The branches of Increment on existing, the write to entry.Collected[key],
\* and the deferred Unlock.
IncrementStore(t) ==
    /\ storeTask[t].pc = "incStore"
    /\ LET stored == IncrementStored(storeTask[t].existing, storeTask[t].currentValue)
           key == storeTask[t].key
       IN  IF stored = NilMetric
           THEN UNCHANGED <<counterStore, lastStored>>
           ELSE /\ counterStore' = MapPut(counterStore, "d1",
                                          MapPut(EntryCollected(counterStore), key, stored))
                /\ lastStored' = MapPut(lastStored, key,
                                       IF MapGet(lastStored, key, -1) > stored.ReportTime
                                       THEN lastStored[key] ELSE stored.ReportTime)
    /\ entryMutex' = "free"
    /\ storeTask' = [storeTask EXCEPT ![t].pc = "idle"]
    /\ UNCHANGED <<now, linearStore, storeCalls>>
    /\ StoreFrame

\* ListMetrics up to the mutex: ttlWindowStart from the time of the call, and
\* s.store.Load(name), which returns nothing when there is no entry.
ListCall(t) ==
    /\ storeTask[t].pc = "idle"
    /\ storeCalls < MaxStoreCalls
    /\ storeTask' = [storeTask EXCEPT ![t] =
           [NoCall EXCEPT !.pc = IF "d1" \in DOMAIN counterStore THEN "listLock" ELSE "idle",
                          !.op = "list", !.at = now,
                          !.expected = IF "d1" \in DOMAIN counterStore THEN {}
                                       ELSE ListMetrics(linearStore, "d1", now),
                          !.overlap = \E o \in DOMAIN storeTask :
                                          o # t /\ storeTask[o].pc # "idle"]]
    /\ storeCalls' = storeCalls + 1
    /\ UNCHANGED <<now, counterStore, entryMutex, linearStore, lastStored>>
    /\ StoreFrame

\* entry.mutex.Lock() and the start of the range over entry.Collected.  The
\* call takes its place in the order of calls here.
ListLock(t) ==
    /\ storeTask[t].pc = "listLock"
    /\ TryLock(entryMutex)
    /\ entryMutex' = t
    /\ storeTask' = [storeTask EXCEPT ![t].pc = "listScan",
                                      ![t].todo = DOMAIN EntryCollected(counterStore),
                                      ![t].expected =
                                          ListMetrics(linearStore, "d1", storeTask[t].at)]
    /\ linearStore' = StoreAfterList(linearStore, "d1", storeTask[t].at)
    /\ UNCHANGED <<now, counterStore, lastStored, storeCalls>>
    /\ StoreFrame

\* One pass of the range: the entry is deleted when it is outside the TTL,
\* else a copy of it is appended to the output.
ListScan(t) ==
    /\ storeTask[t].pc = "listScan"
    /\ \E key \in storeTask[t].todo :
          LET collected == MapGet(EntryCollected(counterStore), key, NilMetric)
          IN  /\ storeTask' = [storeTask EXCEPT
                     ![t].todo = @ \ {key},
                     ![t].output =
                         IF collected = NilMetric \/ OutsideTtl(collected, storeTask[t].at)
                         THEN @ ELSE @ \cup {[key |-> key, m |-> collected]}]
              /\ counterStore' =
                     IF collected # NilMetric /\ OutsideTtl(collected, storeTask[t].at)
                     THEN MapPut(counterStore, "d1",
                                 [k \in (DOMAIN EntryCollected(counterStore)) \ {key} |->
                                     counterStore["d1"][k]])
                     ELSE counterStore
    /\ UNCHANGED <<now, entryMutex, linearStore, lastStored, storeCalls>>
    /\ StoreFrame

\* The range is over: the deferred Unlock, and the output is returned.
ListReturn(t) ==
    /\ storeTask[t].pc = "listScan"
    /\ storeTask[t].todo = {}
    /\ entryMutex' = "free"
    /\ storeTask' = [storeTask EXCEPT ![t].pc = "idle"]
    /\ UNCHANGED <<now, counterStore, linearStore, lastStored, storeCalls>>
    /\ StoreFrame

NextStore ==
    \/ StoreTick
    \/ \E t \in Tasks, sample \in StoreSamples : IncrementCall(t, sample[1], sample[2])
    \/ \E t \in Tasks : IncrementLock(t)
    \/ \E t \in Tasks : IncrementStore(t)
    \/ \E t \in Tasks : ListCall(t)
    \/ \E t \in Tasks : ListLock(t)
    \/ \E t \in Tasks : ListScan(t)
    \/ \E t \in Tasks : ListReturn(t)

SpecStore == InitStore /\ [][NextStore]_vars


\* C28: concurrent Increment and ListMetrics calls on one descriptor name
\* behave as the same calls made one at a time in the order they took the
\* mutex: whenever the mutex is free the entries are those of that sequence
\* of calls (no update is lost), and every list that has returned returned
\* what the list of that sequence returns (no entry half-way through a merge,
\* none missed, none that the sequence had evicted).
C28_Linearizable ==
    /\ entryMutex = "free" => EntryCollected(counterStore) = EntryCollected(linearStore)
    /\ \A t \in Tasks :
          (storeTask[t].pc = "idle" /\ storeTask[t].op = "list") =>
              storeTask[t].output = storeTask[t].expected

\* Two Increments of one key ran at the same time, the second called while
\* the first was inside its call, and the entry holds the sum of both.
C28_Witness ==
    /\ storeTask["t1"].pc = "idle" /\ storeTask["t1"].op = "increment"
    /\ storeTask["t2"].pc = "idle" /\ storeTask["t2"].op = "increment"
    /\ storeTask["t2"].overlap
    /\ storeTask["t1"].key = storeTask["t2"].key
    /\ EntryCollected(counterStore)[storeTask["t1"].key].Value = 2
    /\ storeCalls = 2

\* C30 as stated: the report time stored under a key is at least the report
\* time stored by every earlier successful Increment on that key.
C30_AsStated ==
    \A key \in DOMAIN EntryCollected(counterStore) :
        key \in DOMAIN lastStored =>
            EntryCollected(counterStore)[key].ReportTime >= lastStored[key]

\* C30: while a key stays in the store its report time never goes down, and
\* a successful Increment on a key that is in the store stores a later report
\* time than the one it found; a key that ListMetrics evicted starts anew.
C30_MonotoneWhileStored ==
    [][\A key \in DOMAIN EntryCollected(counterStore) :
          key \in DOMAIN EntryCollected(counterStore') =>
              /\ EntryCollected(counterStore')[key].ReportTime
                    >= EntryCollected(counterStore)[key].ReportTime
              /\ EntryCollected(counterStore')[key] # EntryCollected(counterStore)[key] =>
                    EntryCollected(counterStore')[key].ReportTime
                       > EntryCollected(counterStore)[key].ReportTime]_vars

\* A successful Increment on a key that was in the store has replaced report
\* time 1 by report time 2 and added the values.
C30_Witness ==
    \E t \in Tasks :
        /\ storeTask[t].pc = "idle"
        /\ storeTask[t].op = "increment"
        /\ storeTask[t].existing # NilMetric
        /\ storeTask[t].existing.ReportTime = 1
        /\ storeTask[t].key \in DOMAIN EntryCollected(counterStore)
        /\ EntryCollected(counterStore)[storeTask[t].key].ReportTime = 2
        /\ EntryCollected(counterStore)[storeTask[t].key].Value = 2


\* The entries of the descriptor in the two delta stores, each as Complete
\* sends it before label filling.
StoredAsSent ==
    {StampStale(counterStore["d1"][k], begun, now) :
        k \in DOMAIN MapGet(counterStore, "d1", EmptyMap)}
    \cup {StampStale(histogramStore["d1"][k], begun, now) :
            k \in DOMAIN MapGet(histogramStore, "d1", EmptyMap)}

\* C31: with delta aggregation on, nothing is sent or held back for a DELTA
\* descriptor while its series are collected, and once Complete has run every
\* entry left in the delta stores has been sent exactly once, by Complete,
\* with the value the store holds after the increments of the scrape, and
\* nothing else has been sent.
C31_EmittedByComplete ==
    (trDescriptor.kind = "DELTA" /\ trFlags.aggregateDeltas) =>
        /\ trPc = "loop" => (trSink = {} /\ constMetrics = {} /\ histogramMetrics = {})
        /\ trPc = "done" =>
              /\ \A e \in trSink : e.series = 0
              /\ \A original \in StoredAsSent :
                    Cardinality({e \in trSink : FilledFrom(e.m, original)}) = 1
              /\ Cardinality(trSink) = Cardinality(StoredAsSent)
              /\ Cardinality(StoredAsSent) =
                    Cardinality(DOMAIN MapGet(counterStore, "d1", EmptyMap))
                    + Cardinality(DOMAIN MapGet(histogramStore, "d1", EmptyMap))

\* Complete has sent the two entries of a DELTA descriptor's counter store,
\* one of them the sum of a sample of an earlier scrape and one of this one.
C31_Witness ==
    /\ trPc = "done"
    /\ trDescriptor.kind = "DELTA" /\ trFlags.aggregateDeltas
    /\ Len(results) = 2
    /\ Cardinality(trSink) = 2
    /\ Cardinality(DOMAIN MapGet(counterStore, "d1", EmptyMap)) = 2
    /\ \E e \in trSink, i \in DOMAIN results :
          /\ e.series = 0
          /\ results[i].id = "A"
          /\ e.m.Value > LatestPoint(results[i]).value.int64Value
          /\ results[i].valueType = "INT64"


\* ---------------------------------------------------------------------------
\* SpecWindow: the time window collectMetricsForDescriptors asks the API for.
\* Times and durations are counted in ticks, TicksPerSecond to the second, so
\* that a duration need not be a whole number of seconds; the request carries
\* whole seconds.
\* ---------------------------------------------------------------------------

TicksPerSecond == 2

\* The clock when collectMetricsForDescriptors is entered.
WinStart == 10

\* How far the clock moves while the goroutines run.
MaxWinTicks == 2

\* The metric types of the descriptors handed in.
WinTypes == {"ta", "tb"}

\* metricsInterval: one second, one and a fraction, two seconds.
WinIntervals == {TicksPerSecond, TicksPerSecond + 1, 2 * TicksPerSecond}

\* Metadata.IngestDelay of a descriptor: absent, a fraction of a second, more
\* than a second.
WinDelays == {NoDelay, 1, TicksPerSecond + 1}

\* Time.Unix(): the whole seconds of a time; the request's Nanos are 0.
Unix(t) == t \div TicksPerSecond

AddIngestDelay_EndOnly(w, ingestDelay) == [w EXCEPT !.endTime = @ - ingestDelay]

\* endTime = endTime.Add(ingestDelay * -1); startTime likewise.
AddIngestDelay(w, ingestDelay) ==
    [w EXCEPT !.endTime = @ - ingestDelay, !.startTime = @ - ingestDelay]

InitWindow ==
    /\ winNow = WinStart
    /\ winOptions \in [metricsInterval : WinIntervals, metricsOffset : {0, 1},
                       metricsIngestDelay : BOOLEAN]
    /\ winDescriptors \in [WinTypes -> WinDelays]
    /\ winBase = [pc |-> "idle", startTime |-> 0, endTime |-> 0]
    /\ winTask = EmptyMap
    /\ winRequest = EmptyMap
    /\ DeltaIdle
    /\ ScrapeIdle
    /\ CacheIdle
    /\ PrefixIdle
    /\ DedupIdle
    /\ DescIdle
    /\ NormIdle
    /\ TransIdle
    /\ StoreIdle
    /\ HandlerIdle

\* Time passes while the goroutines run.
WindowTick ==
    /\ winBase.pc = "spawned"
    /\ winNow < WinStart + MaxWinTicks
    /\ winNow' = winNow + 1
    /\ UNCHANGED <<winOptions, winDescriptors, winBase, winTask, winRequest>>
    /\ UNCHANGED otherThanWin

\* collectMetricsForDescriptors up to the end of its loop: endTime and
\* startTime are computed once, and one goroutine per descriptor type is
\* started with the two times as arguments of its own.
WindowBegin ==
    /\ winBase.pc = "idle"
    /\ LET endTime == winNow - winOptions.metricsOffset
           startTime == endTime - winOptions.metricsInterval
       IN  /\ winBase' = [pc |-> "spawned", startTime |-> startTime, endTime |-> endTime,
                          at |-> winNow]
           /\ winTask' = [d \in DOMAIN winDescriptors |->
                             [pc |-> "start", startTime |-> startTime, endTime |-> endTime]]
    /\ UNCHANGED <<winNow, winOptions, winDescriptors, winRequest>>
    /\ UNCHANGED otherThanWin

\* The goroutine of descriptor d: the ingest delay, when the option is on and
\* the metadata has one, moves its two times back.
TaskIngestDelay(d) ==
    /\ winBase.pc = "spawned"
    /\ winTask[d].pc = "start"
    /\ winTask' = [winTask EXCEPT ![d] =
          [(IF winOptions.metricsIngestDelay /\ winDescriptors[d] # NoDelay
            THEN AddIngestDelay(@, winDescriptors[d])
            ELSE @) EXCEPT !.pc = "delayed"]]
    /\ UNCHANGED <<winNow, winOptions, winDescriptors, winBase, winRequest>>
    /\ UNCHANGED otherThanWin

\* The goroutine of descriptor d builds the ListTimeSeriesRequest: Seconds of
\* its two times, Nanos 0.
TaskRequest(d) ==
    /\ winBase.pc = "spawned"
    /\ winTask[d].pc = "delayed"
    /\ winRequest' = MapPut(winRequest, d,
                            [StartTime |-> Unix(winTask[d].startTime),
                             EndTime |-> Unix(winTask[d].endTime)])
    /\ winTask' = [winTask EXCEPT ![d].pc = "sent"]
    /\ UNCHANGED <<winNow, winOptions, winDescriptors, winBase>>
    /\ UNCHANGED otherThanWin

NextWindow ==
    \/ WindowBegin
    \/ WindowTick
    \/ \E d \in WinTypes : TaskIngestDelay(d)
    \/ \E d \in WinTypes : TaskRequest(d)

SpecWindow == InitWindow /\ [][NextWindow]_vars

\* The end of the window of descriptor d as the specification gives it, in
\* ticks: now - offset, less the descriptor's own ingest delay when the option
\* is on and the descriptor advertises one.
WindowEnd(d) ==
    winBase.at - winOptions.metricsOffset
        - (IF winOptions.metricsIngestDelay /\ winDescriptors[d] # NoDelay
           THEN winDescriptors[d] ELSE 0)

\* C33 as stated, the two ends read to the whole second the request carries:
\* every requested window ends at now - offset less the descriptor's ingest
\* delay, starts one interval earlier, and is exactly one interval long.
C33_AsStated ==
    \A d \in DOMAIN winRequest :
        LET end == winRequest[d].EndTime * TicksPerSecond
            start == winRequest[d].StartTime * TicksPerSecond
        IN  /\ end <= WindowEnd(d) /\ WindowEnd(d) < end + TicksPerSecond
            /\ start <= WindowEnd(d) - winOptions.metricsInterval
            /\ WindowEnd(d) - winOptions.metricsInterval < start + TicksPerSecond
            /\ end - start = winOptions.metricsInterval

\* C33: every requested window ends at the whole second of now - offset less
\* the descriptor's own ingest delay, and starts at the whole second of that
\* time less the interval; it is exactly one interval long when the interval
\* is a whole number of seconds, and less than a second off otherwise.  Only
\* the descriptor's own ingest delay enters its window.
C33_Window ==
    \A d \in DOMAIN winRequest :
        LET end == winRequest[d].EndTime * TicksPerSecond
            start == winRequest[d].StartTime * TicksPerSecond
            interval == winOptions.metricsInterval
        IN  /\ end <= WindowEnd(d) /\ WindowEnd(d) < end + TicksPerSecond
            /\ start <= WindowEnd(d) - interval
            /\ WindowEnd(d) - interval < start + TicksPerSecond
            /\ interval % TicksPerSecond = 0 => end - start = interval
            /\ end - start < interval + TicksPerSecond
            /\ interval < (end - start) + TicksPerSecond

\* Both goroutines have sent their request, the clock having moved meanwhile:
\* one descriptor advertises an ingest delay of more than a second, the other
\* none, and the two windows are one interval long and differ.
C33_Witness ==
    /\ DOMAIN winRequest = WinTypes
    /\ winNow > winBase.at
    /\ winOptions.metricsIngestDelay
    /\ winOptions.metricsInterval = 2 * TicksPerSecond
    /\ winDescriptors["ta"] = TicksPerSecond + 1
    /\ winDescriptors["tb"] = NoDelay
    /\ winRequest["ta"].EndTime < winRequest["tb"].EndTime
    /\ winRequest["ta"].EndTime - winRequest["ta"].StartTime = 2
    /\ winRequest["tb"].EndTime - winRequest["tb"].StartTime = 2


\* ---------------------------------------------------------------------------
\* SpecHandler: the ttl newHandler gives the collector cache.  Durations are
\* counted in half hours.
\* ---------------------------------------------------------------------------

\* The largest value of the two ttl flags.
MaxTtlFlag == 5

\* 2 * time.Hour
TwoHours == 4

newHandlerTtl_FloorWhenZero(flags) ==
    IF flags.deltasTTL = 0 /\ flags.descriptorCacheTTL = 0 THEN TwoHours
    ELSE IF flags.descriptorCacheTTL > flags.deltasTTL THEN flags.descriptorCacheTTL
    ELSE flags.deltasTTL

\* The ttl newHandler computes from the flags.
newHandlerTtl(flags) ==
    IF flags.aggregateDeltas \/ flags.descriptorCacheTTL > 0
    THEN IF flags.descriptorCacheTTL > flags.deltasTTL
         THEN flags.descriptorCacheTTL
         ELSE flags.deltasTTL
    ELSE TwoHours

InitHandler ==
    /\ handlerFlags \in [aggregateDeltas : BOOLEAN, deltasTTL : 0..MaxTtlFlag,
                         descriptorCacheTTL : 0..MaxTtlFlag]
    /\ collectorsTtl = NoTtl
    /\ DeltaIdle
    /\ ScrapeIdle
    /\ CacheIdle
    /\ PrefixIdle
    /\ DedupIdle
    /\ DescIdle
    /\ NormIdle
    /\ TransIdle
    /\ StoreIdle
    /\ WindowIdle

\* newHandler: the handler is made with NewCollectorCache(ttl).
NewHandler ==
    /\ collectorsTtl = NoTtl
    /\ collectorsTtl' = newHandlerTtl(handlerFlags)
    /\ UNCHANGED handlerFlags
    /\ UNCHANGED otherThanHandler

NextHandler == NewHandler

SpecHandler == InitHandler /\ [][NextHandler]_vars

\* C34 as stated: the ttl of the collector cache is 2 hours when the
\* delta-aggregation ttl and the descriptor-cache ttl are both zero, and the
\* larger of the two otherwise.
C34_AsStated ==
    collectorsTtl # NoTtl =>
        IF handlerFlags.deltasTTL = 0 /\ handlerFlags.descriptorCacheTTL = 0
        THEN collectorsTtl = TwoHours
        ELSE /\ collectorsTtl \in {handlerFlags.deltasTTL, handlerFlags.descriptorCacheTTL}
             /\ collectorsTtl >= handlerFlags.deltasTTL
             /\ collectorsTtl >= handlerFlags.descriptorCacheTTL

\* C34: the ttl of the collector cache is the larger of the delta-aggregation
\* ttl and the descriptor-cache ttl when delta aggregation is on or the
\* descriptor-cache ttl is above zero, and 2 hours otherwise, whatever the
\* delta-aggregation ttl.
C34_Ttl ==
    collectorsTtl # NoTtl =>
        IF handlerFlags.aggregateDeltas \/ handlerFlags.descriptorCacheTTL > 0
        THEN /\ collectorsTtl \in {handlerFlags.deltasTTL, handlerFlags.descriptorCacheTTL}
             /\ collectorsTtl >= handlerFlags.deltasTTL
             /\ collectorsTtl >= handlerFlags.descriptorCacheTTL
        ELSE collectorsTtl = TwoHours

\* The flags' defaults: no delta aggregation, a delta-aggregation ttl of half
\* an hour, no descriptor cache; the collector cache got 2 hours.
C34_Witness ==
    /\ collectorsTtl = TwoHours
    /\ ~handlerFlags.aggregateDeltas
    /\ handlerFlags.deltasTTL = 1
    /\ handlerFlags.descriptorCacheTTL = 0

=============================================================================
